---- MODULE Spec2Model ----
(***************************************************************************)
(* Client-side auction reconciliation of mkauction: the hooks that query   *)
(* the relay (event store) for listings (kind 30020), bids (kind 1021) and *)
(* bid confirmations (kind 1022), and the page functions that derive the   *)
(* current price, the bid ranking, a bid's status and the ended/active     *)
(* state from the events returned.                                         *)
(*                                                                         *)
(* Event content is JSON text in the program.  Here a content value is the *)
(* record of what JSON.parse makes of it: json = FALSE is text that makes  *)
(* JSON.parse throw, and the other fields are the parsed properties.       *)
(* The relay is append-only and holds every signed event; the order of its *)
(* response is the order of the store, which no created_at determines.     *)
(***************************************************************************)
EXTENDS Integers, Sequences, FiniteSets, TLC

VARIABLES
    listingStore,   \* kind 30020 events held by the relay, in the order it returns them
    bidStore,       \* kind 1021 events held by the relay, in the order it returns them
    confStore,      \* kind 1022 events held by the relay, in the order it returns them
    now,            \* Math.floor(Date.now() / 1000)
    auctions,       \* AuctionsPage: result of useAuctions()
    currentBids,    \* AuctionsPage: result of useAuctionCurrentBids(auctions)
    myAuctions,     \* DashboardPage: result of useMyAuctions(user.pubkey)
    auction,        \* AuctionDetailsPage: result of useAuctionByDTag(auctionId)
    bids,           \* result of useAuctionBids(auction.id)
    bidStats,       \* result of useAuctionBidStats(auction.id)
    confirmations,  \* result of useAuctionBidConfirmations(auction.id)
    bidsWithConfirmations, \* AuctionManagement: result of useAuctionBidsWithConfirmations(auction.id)
    card,           \* AuctionCard: isActive and timeLeft, with the now that set them
    detail,         \* AuctionDetailsPage: isActive and timeLeft, with the now that set them
    management,     \* AuctionManagement: isAuctionEnded, with the now that set it
    dashboard,      \* DashboardPage: getAuctionStatus of the last render, with its now
    extendOffer,    \* AuctionManagement: shouldExtendAuction() of the last render, with its now
    session,        \* useCurrentUser(): whether a user is logged in and what its signer's nip04 offers
    dmStore,        \* kind 4 events held by the relay, in the order it returns them
    thread,         \* result of useAuctionMessageThread(participant, auctionId)
    communications, \* result of useAuctionCommunications(auctionId)
    encryptedMessages, \* result of useEncryptedMessages()
    showPaymentDialog, \* AuctionCommunications: the open prop of SendPaymentRequestDialog
    step,           \* SendPaymentRequestDialog: form, invoice, sending or sent
    paymentData,    \* SendPaymentRequestDialog: amount and description of the form
    generatedInvoice, \* SendPaymentRequestDialog: the invoice, "" when there is none
    invoiceCalls,   \* makeInvoice calls that have not returned, with their arguments
    resetTimers,    \* pending setTimeout callbacks of handleSendPaymentRequest
    toast,          \* title of the latest toast, "" when none was shown
    outbox,         \* sends under way: awaiting nip04.encrypt or the publication
    sendResult,     \* what became of the message of the dialog's latest send
    callResult,     \* how the latest sendAuctionMessage / sendEncryptedMessage call ended
    myBids,         \* a bidder's client: result of useMyBids(pubkey)
    latestBids,     \* useAuctionBidNotifications: result of the latest-bids query
    welcomed,       \* ids of the bids a welcome message was sent for, in order
    buyer,          \* PaymentMessages and its PaymentDialog in the buyer's client
    bidClients,     \* per bidder's client: AuctionsPage with its BidDialog
    sellerPage      \* AuctionManagement of the first listing in its seller's client

storeVars == <<listingStore, bidStore, confStore>>

listingViews == <<auctions, myAuctions, auction>>

bidViews == <<currentBids, bids, bidStats>>

confViews == <<confirmations, bidsWithConfirmations>>

lifeViews == <<card, detail, management, dashboard>>

messageViews == <<thread, communications, encryptedMessages>>

messageVars == <<session, dmStore, messageViews>>

dialogVars == <<showPaymentDialog, step, paymentData, generatedInvoice, invoiceCalls, resetTimers>>

sendVars == <<toast, outbox, sendResult, callResult>>

notifyVars == <<latestBids, welcomed>>

clientVars == <<myBids, notifyVars, buyer, bidClients, sellerPage>>

interactionVars == <<extendOffer, messageVars, dialogVars, sendVars, clientVars>>

vars == <<storeVars, now, listingViews, bidViews, confViews, lifeViews, interactionVars>>

(***************************************************************************)
(* Bounds of the model.                                                    *)
(***************************************************************************)
MaxListings == 3

MaxBids == 3

MaxConfs == 3

MaxNow == 6

MaxDms == 3

\* Welcome messages sent before the hook is no longer followed.
MaxWelcomes == 3

(***************************************************************************)
(* Generic helpers.                                                        *)
(***************************************************************************)
SeqsUpTo(S, n) == UNION {[1..k -> S] : k \in 0..n}

MaxOf(S) == CHOOSE x \in S : \A y \in S : y <= x

MinOf(S) == CHOOSE x \in S : \A y \in S : x <= y

\* A react-query result: data is undefined until the queryFn has resolved,
\* and stays undefined when the queryFn has thrown.
Pending == [fetched |-> FALSE, error |-> FALSE, data |-> <<>>]

Resolved(d) == [fetched |-> TRUE, error |-> FALSE, data |-> d]

Rejected == [fetched |-> FALSE, error |-> TRUE, data |-> <<>>]

(***************************************************************************)
(* Event ids.  The relay's ids are hashes; the model numbers the events of *)
(* each kind by their place in the store.                                  *)
(***************************************************************************)
AuctionEventId(i) == <<"auction", i>>

BidEventId(i) == <<"bid", i>>

ConfEventId(i) == <<"confirmation", i>>

\* useCurrentUser(): the logged-in user of the dashboard and the seller's views.
CurrentUser == "seller1"

(***************************************************************************)
(* Listings (kind 30020).                                                  *)
(***************************************************************************)
ValidListingContent(stableId) ==
    [json |-> TRUE, isNull |-> FALSE, id |-> stableId, title |-> "art",
     starting_bid |-> 10, start_date |-> 2, duration |-> 3,
     imagesIsArray |-> TRUE, imagesLength |-> 1,
     hasLocalCost |-> TRUE, hasInternationalCost |-> TRUE]

\* Payloads that are syntactically invalid or miss a required field.
CorruptListingContents ==
    { [ValidListingContent("u1") EXCEPT !.json = FALSE],
      [ValidListingContent("u1") EXCEPT !.isNull = TRUE],
      [ValidListingContent("u1") EXCEPT !.title = ""],
      [ValidListingContent("u1") EXCEPT !.imagesLength = 0],
      [ValidListingContent("u1") EXCEPT !.hasInternationalCost = FALSE] }

\* Versions of the listing u1 by two authors at two times, one listing u2,
\* and the corrupt payloads.
ListingInputs ==
    [pubkey : {"seller1", "seller2"}, created_at : {1, 2}, d : {"u1"},
     content : {ValidListingContent("u1")}]
    \cup {[pubkey |-> "seller1", created_at |-> 1, d |-> "u2",
           content |-> ValidListingContent("u2")]}
    \cup [pubkey : {"seller1"}, created_at : {2}, d : {"u1"}, content : CorruptListingContents]

ListingEvent(i, in) ==
    [id |-> AuctionEventId(i), kind |-> 30020, pubkey |-> in.pubkey,
     created_at |-> in.created_at, d |-> in.d, content |-> in.content]

ListingStores ==
    {[i \in 1..Len(s) |-> ListingEvent(i, s[i])] : s \in SeqsUpTo(ListingInputs, MaxListings)}

\* The two listings of the pages whose bids are reconciled.
TwoListings ==
    << ListingEvent(1, [pubkey |-> "seller1", created_at |-> 1, d |-> "u1",
                        content |-> ValidListingContent("u1")]),
       ListingEvent(2, [pubkey |-> "seller2", created_at |-> 1, d |-> "u2",
                        content |-> ValidListingContent("u2")]) >>

\* validateAuctionEvent without the check of the images array.
validateAuctionEvent_ImagesUnchecked(event) ==
    IF event.kind # 30020 THEN FALSE
    ELSE LET data == event.content IN
         IF ~data.json \/ data.isNull THEN FALSE
         ELSE IF data.id = "" \/ data.title = "" \/ data.starting_bid = 0
                 \/ data.start_date = 0 \/ data.duration = 0 THEN FALSE
         ELSE IF ~data.hasLocalCost \/ ~data.hasInternationalCost THEN FALSE
         ELSE TRUE

\* validateAuctionEvent: every property access is inside the try block, so
\* unparsable text and a JSON null both end in the catch branch.
validateAuctionEvent(event) ==
    IF event.kind # 30020 THEN FALSE
    ELSE LET data == event.content IN
         IF ~data.json \/ data.isNull THEN FALSE
         ELSE IF data.id = "" \/ data.title = "" \/ data.starting_bid = 0
                 \/ data.start_date = 0 \/ data.duration = 0 THEN FALSE
         ELSE IF ~data.imagesIsArray \/ data.imagesLength = 0 THEN FALSE
         ELSE IF ~data.hasLocalCost \/ ~data.hasInternationalCost THEN FALSE
         ELSE TRUE

\* Array.prototype.sort with (a, b) => b.created_at - a.created_at; the sort
\* is stable, so events of equal created_at keep the order of the response.
InsertByCreatedAtDesc(sorted, ev) ==
    LET after == {i \in 1..Len(sorted) : sorted[i].created_at < ev.created_at}
        at == IF after = {} THEN Len(sorted) + 1 ELSE MinOf(after)
    IN SubSeq(sorted, 1, at - 1) \o <<ev>> \o SubSeq(sorted, at, Len(sorted))

RECURSIVE SortByCreatedAtDesc(_)
SortByCreatedAtDesc(events) ==
    IF events = <<>> THEN <<>>
    ELSE InsertByCreatedAtDesc(SortByCreatedAtDesc(SubSeq(events, 1, Len(events) - 1)),
                               events[Len(events)])

\* useAuctions queryFn over the relay's response to {kinds: [30020]}.
useAuctionsFn(events) ==
    SortByCreatedAtDesc(SelectSeq(events, validateAuctionEvent))

\* useMyAuctions queryFn: the relay's response to {kinds: [30020], authors: [pubkey]}.
useMyAuctionsFn(store, pubkey) ==
    SortByCreatedAtDesc(SelectSeq(SelectSeq(store, LAMBDA ev : ev.pubkey = pubkey),
                                  validateAuctionEvent))

\* The relay's possible responses to {kinds: [30020], '#d': [dTag], limit: 1}:
\* with a limit the relay returns the newest matching event; which one of
\* several newest events it returns is the relay's choice.
QueryByDTag(store, dTag) ==
    LET matching == {i \in 1..Len(store) : store[i].d = dTag}
        newest == {i \in matching : \A j \in matching : store[j].created_at <= store[i].created_at}
    IN IF matching = {} THEN {<<>>} ELSE {<<store[i]>> : i \in newest}

\* useAuctionByDTag queryFn over one response: events.find(validateAuctionEvent),
\* and throw new Error('Auction not found') when there is none.
useAuctionByDTagFn(events) ==
    LET valid == SelectSeq(events, validateAuctionEvent)
    IN IF valid = <<>> THEN Rejected ELSE Resolved(valid[1])

(***************************************************************************)
(* Bids (kind 1021).                                                       *)
(***************************************************************************)
\* Contents a relay can hold for a bid: unparsable text, an amount that is
\* a string, and numeric amounts.
UnparsableBid == [json |-> FALSE, amountType |-> "undefined", amount |-> 0]

StringAmountBid == [json |-> TRUE, amountType |-> "string", amount |-> 0]

NumberBid(n) == [json |-> TRUE, amountType |-> "number", amount |-> n]

\* Bids on the first listing (5 is below its starting bid) at two times,
\* bids with no amount to read, with amount 0 and with a negative amount,
\* and one higher bid on the second listing.
BidInputs ==
    [pubkey : {"bidder1"}, created_at : {1, 2}, e : {<<AuctionEventId(1)>>},
     content : {NumberBid(n) : n \in {5, 20, 30}}]
    \cup [pubkey : {"bidder1"}, created_at : {1}, e : {<<AuctionEventId(1)>>},
          content : {UnparsableBid, StringAmountBid, NumberBid(0), NumberBid(-5)}]
    \cup {[pubkey |-> "bidder2", created_at |-> 1, e |-> <<AuctionEventId(2)>>,
           content |-> NumberBid(40)]}

BidEvent(i, in) ==
    [id |-> BidEventId(i), kind |-> 1021, pubkey |-> in.pubkey,
     created_at |-> in.created_at, e |-> in.e, content |-> in.content]

BidStores == {[i \in 1..Len(s) |-> BidEvent(i, s[i])] : s \in SeqsUpTo(BidInputs, MaxBids)}

\* The two bids on the first listing that the seller confirms.
TwoBids ==
    << BidEvent(1, [pubkey |-> "bidder1", created_at |-> 1, e |-> <<AuctionEventId(1)>>,
                    content |-> NumberBid(20)]),
       BidEvent(2, [pubkey |-> "bidder2", created_at |-> 2, e |-> <<AuctionEventId(1)>>,
                    content |-> NumberBid(30)]) >>

\* nostr.query([{kinds: [k], '#e': ids}]): the stored events of the kind
\* carrying an e tag with one of the ids, in the relay's order.
QueryByETag(store, ids) ==
    SelectSeq(store, LAMBDA ev : \E k \in 1..Len(ev.e) : ev.e[k] \in ids)

\* The bid filter with amount >= 0 in place of amount > 0.
IsValidBid_ZeroAccepted(event) ==
    LET bidData == event.content IN
    IF ~bidData.json THEN FALSE
    ELSE bidData.amountType = "number" /\ bidData.amount >= 0

\* try { JSON.parse(content); typeof amount === 'number' && amount > 0 } catch { false }
IsValidBid(event) ==
    LET bidData == event.content IN
    IF ~bidData.json THEN FALSE
    ELSE bidData.amountType = "number" /\ bidData.amount > 0

\* sort((a, b) => amountB - amountA), stable.
InsertByAmountDesc(sorted, ev) ==
    LET after == {i \in 1..Len(sorted) : sorted[i].content.amount < ev.content.amount}
        at == IF after = {} THEN Len(sorted) + 1 ELSE MinOf(after)
    IN SubSeq(sorted, 1, at - 1) \o <<ev>> \o SubSeq(sorted, at, Len(sorted))

RECURSIVE SortByAmountDesc(_)
SortByAmountDesc(events) ==
    IF events = <<>> THEN <<>>
    ELSE InsertByAmountDesc(SortByAmountDesc(SubSeq(events, 1, Len(events) - 1)),
                            events[Len(events)])

\* useAuctionBids with the filter and without the sort.
useAuctionBidsFn_Unsorted(events) ==
    SelectSeq(events, IsValidBid)

\* useAuctionBids queryFn over the relay's response.
useAuctionBidsFn(events) ==
    SortByAmountDesc(SelectSeq(events, IsValidBid))

\* useAuctionCurrentBids: one step of events.forEach.
GroupBid(bidsByAuction, event) ==
    IF event.e = <<>> THEN bidsByAuction
    ELSE LET auctionId == event.e[1] IN
         IF ~IsValidBid(event) THEN bidsByAuction
         ELSE IF auctionId \notin DOMAIN bidsByAuction
              THEN bidsByAuction @@ (auctionId :> [amount |-> event.content.amount, count |-> 1])
              ELSE [bidsByAuction EXCEPT ![auctionId] =
                       [amount |-> IF event.content.amount > @.amount
                                   THEN event.content.amount ELSE @.amount,
                        count |-> @.count + 1]]

RECURSIVE GroupBids(_, _)
GroupBids(events, bidsByAuction) ==
    IF events = <<>> THEN bidsByAuction
    ELSE GroupBids(Tail(events), GroupBid(bidsByAuction, Head(events)))

\* useAuctionCurrentBids queryFn over the relay's response.
useAuctionCurrentBidsFn(events) == GroupBids(events, <<>>)

\* useAuctionBidStats queryFn over the relay's response.
useAuctionBidStatsFn(events) ==
    LET validBids == SelectSeq(events, IsValidBid)
        amounts == {validBids[i].content.amount : i \in 1..Len(validBids)}
    IN [totalBids |-> Len(validBids),
        uniqueBidders |-> Cardinality({validBids[i].pubkey : i \in 1..Len(validBids)}),
        highestBid |-> IF Len(validBids) > 0 THEN MaxOf(amounts) ELSE 0,
        latestBidTime |-> IF Len(validBids) > 0
                          THEN MaxOf({validBids[i].created_at : i \in 1..Len(validBids)})
                          ELSE 0]

(***************************************************************************)
(* Current price, as each page derives it.                                 *)
(***************************************************************************)
\* AuctionsPage.getCurrentBid; currentBids defaults to {} while undefined.
ListGetCurrentBidOf(currentBidsData, auctionsData, auctionEventId) ==
    IF auctionEventId \in DOMAIN currentBidsData
       /\ currentBidsData[auctionEventId].amount > 0
    THEN currentBidsData[auctionEventId].amount
    ELSE LET found == {i \in 1..Len(auctionsData) : auctionsData[i].id = auctionEventId}
         IN IF found = {} THEN 0
            ELSE LET a == auctionsData[MinOf(found)]
                 IN IF ~a.content.json \/ a.content.isNull THEN 0
                    ELSE a.content.starting_bid

\* AuctionsPage.getBidCount
ListGetBidCountOf(currentBidsData, auctionEventId) ==
    IF auctionEventId \in DOMAIN currentBidsData
    THEN currentBidsData[auctionEventId].count ELSE 0

\* AuctionDetailsPage.getCurrentBid; auctionData is the parsed listing content.
DetailGetCurrentBidOf(bidsResult, auctionData) ==
    IF ~bidsResult.fetched \/ Len(bidsResult.data) = 0
    THEN auctionData.starting_bid
    ELSE IF ~bidsResult.data[1].content.json THEN auctionData.starting_bid
         ELSE bidsResult.data[1].content.amount

\* DashboardPage.getCurrentBid
DashboardGetCurrentBid(auctionEvent) ==
    IF ~auctionEvent.content.json \/ auctionEvent.content.isNull THEN 0
    ELSE auctionEvent.content.starting_bid

ListGetCurrentBid(auctionEventId) ==
    ListGetCurrentBidOf(currentBids.data, auctions.data, auctionEventId)

DetailGetCurrentBid == DetailGetCurrentBidOf(bids, auction.data.content)

(***************************************************************************)
(* Bid confirmations (kind 1022).                                          *)
(***************************************************************************)
UnparsableConfirmation == [json |-> FALSE, status |-> ""]

Confirmation(status) == [json |-> TRUE, status |-> status]

\* Confirmations of either bid by the seller of the first listing at two
\* times, and one confirmation by somebody else.
ConfInputs ==
    [pubkey : {"seller1"}, created_at : {1, 2}, bid : {1, 2},
     content : {Confirmation("pending"), Confirmation("accepted"), UnparsableConfirmation}]
    \cup {[pubkey |-> "mallory", created_at |-> 2, bid |-> 1,
           content |-> Confirmation("winner")]}

\* useBidConfirmation.confirmBid: e tags of the bid and of the auction, p tag of the bidder.
ConfEvent(i, in) ==
    [id |-> ConfEventId(i), kind |-> 1022, pubkey |-> in.pubkey,
     created_at |-> in.created_at,
     e |-> <<BidEventId(in.bid), AuctionEventId(1)>>,
     p |-> TwoBids[in.bid].pubkey, content |-> in.content]

ConfStores == {[i \in 1..Len(s) |-> ConfEvent(i, s[i])] : s \in SeqsUpTo(ConfInputs, MaxConfs)}

\* useAuctionBidConfirmations without the sort by created_at.
useAuctionBidConfirmationsFn_Unsorted(events) == events

\* useAuctionBidConfirmations queryFn over the relay's response.
useAuctionBidConfirmationsFn(events) == SortByCreatedAtDesc(events)

\* confirmations.find(conf => conf.tags.some(tag => tag[0] === 'e' && tag[1] === bid.id)):
\* the place of the first such confirmation, 0 when there is none.
FindConfirmation(confs, bidId) ==
    LET tagging == {i \in 1..Len(confs) : \E k \in 1..Len(confs[i].e) : confs[i].e[k] = bidId}
    IN IF tagging = {} THEN 0 ELSE MinOf(tagging)

\* let status = 'pending'; if (confirmationData) status = confirmationData.status
StatusOf(confs, bidId) ==
    LET at == FindConfirmation(confs, bidId)
    IN IF at = 0 THEN "pending"
       ELSE IF ~confs[at].content.json THEN "pending"
       ELSE confs[at].content.status

\* PublicBidHistory: bidsWithConfirmations of the render, given the data of
\* useAuctionBids and of useAuctionBidConfirmations.
PublicBidHistoryOf(bidsData, confsData) ==
    LET items == [i \in 1..Len(bidsData) |->
                    [isNull |-> ~bidsData[i].content.json,
                     bid |-> bidsData[i],
                     status |-> StatusOf(confsData, bidsData[i].id)]]
    IN SelectSeq(items, LAMBDA item : /\ ~item.isNull
                                      /\ item.bid.content.amountType = "number"
                                      /\ item.bid.content.amount > 0)

\* bidData?.amount || 0
AmountOrZero(content) ==
    IF content.json /\ content.amountType = "number" THEN content.amount ELSE 0

InsertItemByAmountDesc(sorted, item) ==
    LET after == {i \in 1..Len(sorted) :
                     AmountOrZero(sorted[i].bid.content) < AmountOrZero(item.bid.content)}
        at == IF after = {} THEN Len(sorted) + 1 ELSE MinOf(after)
    IN SubSeq(sorted, 1, at - 1) \o <<item>> \o SubSeq(sorted, at, Len(sorted))

RECURSIVE SortItemsByAmountDesc(_)
SortItemsByAmountDesc(items) ==
    IF items = <<>> THEN <<>>
    ELSE InsertItemByAmountDesc(SortItemsByAmountDesc(SubSeq(items, 1, Len(items) - 1)),
                                items[Len(items)])

\* BidHistory: bidsWithMessages of the render (bid and status of each entry).
BidHistoryOf(bidsData, confsData) ==
    SortItemsByAmountDesc([i \in 1..Len(bidsData) |->
                             [bid |-> bidsData[i],
                              status |-> StatusOf(confsData, bidsData[i].id)]])

\* useAuctionBidsWithConfirmations queryFn over the relay's two responses;
\* the confirmations are searched in the relay's order.
useAuctionBidsWithConfirmationsFn(bidEvents, confEvents) ==
    LET items == [i \in 1..Len(bidEvents) |->
                    [bid |-> bidEvents[i],
                     isValid |-> bidEvents[i].content.json,
                     status |-> StatusOf(confEvents, bidEvents[i].id)]]
    IN SortItemsByAmountDesc(SelectSeq(items, LAMBDA item : item.isValid))

PublicBidHistory == PublicBidHistoryOf(bids.data, confirmations.data)

BidHistory == BidHistoryOf(bids.data, confirmations.data)

(***************************************************************************)
(* Ended/active state, as each view derives it.                            *)
(***************************************************************************)
\* The countdown text: 'Auction ended', or the remaining time formatted.
TimeLeftOf(remaining) ==
    IF remaining <= 0 THEN [text |-> "Auction ended", seconds |-> 0]
    ELSE [text |-> "countdown", seconds |-> remaining]

\* AuctionCard.updateTimeLeft
CardUpdateTimeLeft(auctionData, t) ==
    LET endTime == auctionData.start_date + auctionData.duration
        remaining == endTime - t
    IN [ran |-> TRUE, now |-> t, isActive |-> ~(remaining <= 0),
        timeLeft |-> TimeLeftOf(remaining)]

\* AuctionDetailsPage.updateTimeLeft
DetailUpdateTimeLeft(auctionData, t) ==
    LET endTime == auctionData.start_date + auctionData.duration
        remaining == endTime - t
    IN [ran |-> TRUE, now |-> t, isActive |-> ~(remaining <= 0),
        timeLeft |-> TimeLeftOf(remaining)]

\* AuctionManagement: the effect that sets isAuctionEnded
ManagementCheckEnded(auctionData, t) ==
    LET endTime == auctionData.start_date + auctionData.duration
    IN [ran |-> TRUE, now |-> t, isAuctionEnded |-> t > endTime]

\* DashboardPage.getAuctionStatus
getAuctionStatus(auctionEvent, t) ==
    IF ~auctionEvent.content.json \/ auctionEvent.content.isNull THEN "unknown"
    ELSE LET data == auctionEvent.content
             endTime == data.start_date + data.duration
         IN IF t > endTime THEN "ended" ELSE "active"

\* Listings with their end between 3 and 5.
LifeListings ==
    {ListingEvent(1, [pubkey |-> "seller1", created_at |-> 1, d |-> "u1",
                      content |-> [ValidListingContent("u1") EXCEPT
                                      !.start_date = s, !.duration = d]]) :
        s \in {1, 2}, d \in {2, 3}}

(***************************************************************************)
(* Actions: the queries.                                                   *)
(***************************************************************************)
QueryAuctions ==
    /\ auctions' = Resolved(useAuctionsFn(listingStore))
    /\ UNCHANGED <<interactionVars, storeVars, now, myAuctions, auction, bidViews, confViews, lifeViews>>

QueryMyAuctions ==
    /\ myAuctions' = Resolved(useMyAuctionsFn(listingStore, CurrentUser))
    /\ UNCHANGED <<interactionVars, storeVars, now, auctions, auction, bidViews, confViews, lifeViews>>

\* AuctionDetailsPage opened at /auction/<dTag>
QueryAuctionByDTag ==
    /\ \E dTag \in {"u1", "u2"} : \E events \in QueryByDTag(listingStore, dTag) :
          auction' = useAuctionByDTagFn(events)
    /\ UNCHANGED <<interactionVars, storeVars, now, auctions, myAuctions, bidViews, confViews, lifeViews>>

\* enabled: !!auctions && auctions.length > 0
QueryCurrentBids ==
    /\ auctions.fetched /\ Len(auctions.data) > 0
    /\ currentBids' = Resolved(useAuctionCurrentBidsFn(
           QueryByETag(bidStore, {auctions.data[i].id : i \in 1..Len(auctions.data)})))
    /\ UNCHANGED <<interactionVars, storeVars, now, listingViews, bids, bidStats, confViews, lifeViews>>

QueryAuctionBids ==
    /\ auction.fetched
    /\ bids' = Resolved(useAuctionBidsFn(QueryByETag(bidStore, {auction.data.id})))
    /\ UNCHANGED <<interactionVars, storeVars, now, listingViews, currentBids, bidStats, confViews, lifeViews>>

\* A react-query result after its queryFn has thrown (the relay query failed
\* or ran into AbortSignal.timeout): data of an earlier success is kept.
Failed(result) == IF result.fetched THEN [result EXCEPT !.error = TRUE] ELSE Rejected

\* useAuctionCurrentBids when nostr.query rejects.
QueryCurrentBidsFails ==
    /\ auctions.fetched /\ Len(auctions.data) > 0
    /\ currentBids' = Failed(currentBids)
    /\ UNCHANGED <<interactionVars, storeVars, now, listingViews, bids, bidStats, confViews, lifeViews>>

\* useAuctionBids when nostr.query rejects.
QueryAuctionBidsFails ==
    /\ auction.fetched
    /\ bids' = Failed(bids)
    /\ UNCHANGED <<interactionVars, storeVars, now, listingViews, currentBids, bidStats, confViews, lifeViews>>

QueryBidStats ==
    /\ auction.fetched
    /\ bidStats' = Resolved(useAuctionBidStatsFn(QueryByETag(bidStore, {auction.data.id})))
    /\ UNCHANGED <<interactionVars, storeVars, now, listingViews, currentBids, bids, confViews, lifeViews>>

QueryConfirmations ==
    /\ auction.fetched
    /\ confirmations' = Resolved(useAuctionBidConfirmationsFn(
                            QueryByETag(confStore, {auction.data.id})))
    /\ UNCHANGED <<interactionVars, storeVars, now, listingViews, bidViews, bidsWithConfirmations, lifeViews>>

QueryBidsWithConfirmations ==
    /\ auction.fetched
    /\ bidsWithConfirmations' = Resolved(useAuctionBidsWithConfirmationsFn(
                                    QueryByETag(bidStore, {auction.data.id}),
                                    QueryByETag(confStore, {auction.data.id})))
    /\ UNCHANGED <<interactionVars, storeVars, now, listingViews, bidViews, confirmations, lifeViews>>

(***************************************************************************)
(* Actions: the clock and the views of the ended/active state.             *)
(***************************************************************************)
Tick ==
    /\ now < MaxNow
    /\ now' = now + 1
    /\ UNCHANGED <<interactionVars, storeVars, listingViews, bidViews, confViews, lifeViews>>

\* AuctionCard of the first listing of the list: updateTimeLeft, at mount and every second.
CardTimer ==
    /\ auctions.fetched /\ Len(auctions.data) > 0
    /\ card' = CardUpdateTimeLeft(auctions.data[1].content, now)
    /\ UNCHANGED <<interactionVars, storeVars, now, listingViews, bidViews, confViews, detail, management, dashboard>>

\* AuctionDetailsPage: updateTimeLeft, at mount and every second.
DetailTimer ==
    /\ auction.fetched
    /\ detail' = DetailUpdateTimeLeft(auction.data.content, now)
    /\ UNCHANGED <<interactionVars, storeVars, now, listingViews, bidViews, confViews, card, management, dashboard>>

\* AuctionManagement: the effect runs when auctionData is set, not on a timer.
ManagementMount ==
    /\ auction.fetched
    /\ ~management.ran
    /\ management' = ManagementCheckEnded(auction.data.content, now)
    /\ UNCHANGED <<interactionVars, storeVars, now, listingViews, bidViews, confViews, card, detail, dashboard>>

\* DashboardPage: a render of the first of myAuctions.
DashboardRender ==
    /\ myAuctions.fetched /\ Len(myAuctions.data) > 0
    /\ dashboard' = [ran |-> TRUE, now |-> now,
                     status |-> getAuctionStatus(myAuctions.data[1], now)]
    /\ UNCHANGED <<interactionVars, storeVars, now, listingViews, bidViews, confViews, card, detail, management>>

(***************************************************************************)
(* Auto-extend: the listing's auto_extend and extension_time, and the one  *)
(* place that reads them.                                                  *)
(***************************************************************************)
\* AuctionManagement.shouldExtendAuction
shouldExtendAuction(auctionData, t) ==
    IF ~auctionData.auto_extend THEN FALSE
    ELSE LET endTime == auctionData.start_date + auctionData.duration
             timeLeft == endTime - t
         IN timeLeft <= 300 /\ timeLeft > 0

\* A listing from 1000 to 4600 with extension_time 300 (CreateAuctionForm
\* always writes 300), with and without auto_extend.
ExtendListings ==
    {ListingEvent(1, [pubkey |-> "seller1", created_at |-> 1, d |-> "u1",
                      content |-> [auto_extend |-> a, extension_time |-> 300,
                                   start_date |-> 1000, duration |-> 3600]
                                  @@ ValidListingContent("u1")]) : a \in BOOLEAN}

\* Bids on it outside (4000) and inside (4400) its last 300 seconds.
ExtendBidInputs ==
    {[pubkey |-> "bidder1", created_at |-> 4000, e |-> <<AuctionEventId(1)>>,
      content |-> NumberBid(20)],
     [pubkey |-> "bidder1", created_at |-> 4400, e |-> <<AuctionEventId(1)>>,
      content |-> NumberBid(30)],
     [pubkey |-> "bidder2", created_at |-> 4000, e |-> <<AuctionEventId(1)>>,
      content |-> NumberBid(40)]}

ExtendBidStores ==
    {[i \in 1..Len(s) |-> BidEvent(i, s[i])] : s \in SeqsUpTo(ExtendBidInputs, MaxBids)}

\* The times at which the views run.
ExtendTimes == {4400, 4600, 4650, 4700}

\* The clock moves to a later one of these times.
Advance ==
    /\ \E t \in ExtendTimes : t > now /\ now' = t
    /\ UNCHANGED <<interactionVars, storeVars, listingViews, bidViews, confViews, lifeViews>>

\* AuctionManagement, shown to the listing's author only: a render of the
\* confirm dialog offers the extension input when shouldExtendAuction().
ManagementRender ==
    /\ auction.fetched
    /\ auction.data.pubkey = CurrentUser
    /\ extendOffer' = [ran |-> TRUE, now |-> now,
                       shown |-> shouldExtendAuction(auction.data.content, now)]
    /\ UNCHANGED <<messageVars, dialogVars, sendVars, storeVars, now, listingViews, bidViews,
                   confViews, lifeViews, clientVars>>

(***************************************************************************)
(* The Reserve Met badge.                                                  *)
(***************************************************************************)
\* AuctionCard: auctionData.reserve_price && currentBid && currentBid >= auctionData.reserve_price
CardReserveMet(auctionData, currentBid) ==
    /\ auctionData.hasReserve /\ auctionData.reserve_price # 0
    /\ currentBid # 0
    /\ currentBid >= auctionData.reserve_price

\* AuctionDetailsPage: auctionData.reserve_price && currentBid >= auctionData.reserve_price
DetailReserveMet(auctionData, currentBid) ==
    /\ auctionData.hasReserve /\ auctionData.reserve_price # 0
    /\ currentBid >= auctionData.reserve_price

\* The badge of a card of the list page, of a card of the dashboard, and of
\* the detail page.
ListReserveMet(auctionEvent) ==
    CardReserveMet(auctionEvent.content, ListGetCurrentBid(auctionEvent.id))

DashboardReserveMet(auctionEvent) ==
    CardReserveMet(auctionEvent.content, DashboardGetCurrentBid(auctionEvent))

DetailReserveMetNow ==
    DetailReserveMet(auction.data.content, DetailGetCurrentBid)

\* A listing with starting_bid 10 and no reserve, a reserve of 20, or a
\* reserve of 5.
ReserveListings ==
    {ListingEvent(1, [pubkey |-> "seller1", created_at |-> 1, d |-> "u1",
                      content |-> r @@ ValidListingContent("u1")]) :
        r \in {[hasReserve |-> FALSE, reserve_price |-> 0],
               [hasReserve |-> TRUE, reserve_price |-> 20],
               [hasReserve |-> TRUE, reserve_price |-> 5]}}

\* Bids just below the reserve of 20 and at it, and a bid without a numeric amount.
ReserveBidInputs ==
    [pubkey : {"bidder1"}, created_at : {1}, e : {<<AuctionEventId(1)>>},
     content : {NumberBid(19), NumberBid(20), StringAmountBid}]

ReserveBidStores ==
    {[i \in 1..Len(s) |-> BidEvent(i, s[i])] : s \in SeqsUpTo(ReserveBidInputs, MaxBids)}

(***************************************************************************)
(* Encrypted direct messages (kind 4) and the threads built from them.     *)
(* The content of an event is modelled by what nip04.decrypt and           *)
(* JSON.parse make of it for the two parties of the message.               *)
(***************************************************************************)
DmEventId(i) == <<"dm", i>>

\* Ciphertext that nip04.decrypt rejects.
UndecryptableDm ==
    [decrypts |-> FALSE, json |-> FALSE, hasAuctionId |-> FALSE, auction_id |-> "",
     type |-> 0, created_at |-> 0]

\* Ciphertext that decrypts to text JSON.parse rejects.
UnparsableDm ==
    [decrypts |-> TRUE, json |-> FALSE, hasAuctionId |-> FALSE, auction_id |-> "",
     type |-> 0, created_at |-> 0]

\* An AuctionMessage with auction_id set.
AuctionDm(auctionId, type, t) ==
    [decrypts |-> TRUE, json |-> TRUE, hasAuctionId |-> TRUE, auction_id |-> auctionId,
     type |-> type, created_at |-> t]

\* A message without auction_id, as SendPaymentRequestDialog builds it.
PlainDm(type, t) ==
    [decrypts |-> TRUE, json |-> TRUE, hasAuctionId |-> FALSE, auction_id |-> "",
     type |-> type, created_at |-> t]

DmEvent(i, in) ==
    [id |-> DmEventId(i), kind |-> 4, pubkey |-> in.pubkey, p |-> in.p,
     created_at |-> in.created_at, content |-> in.content]

\* Messages from the first bidder to the seller (unreadable ones, messages
\* of this auction, of another auction and of no auction) and one reply.
DmInputs ==
    [pubkey : {"bidder1"}, p : {"seller1"}, created_at : {1},
     content : {UndecryptableDm, UnparsableDm, AuctionDm("u1", 5, 1),
                AuctionDm("u2", 5, 1), PlainDm(1, 1)}]
    \cup {[pubkey |-> "bidder1", p |-> "seller1", created_at |-> 3,
           content |-> AuctionDm("u1", 3, 3)],
          [pubkey |-> "seller1", p |-> "bidder1", created_at |-> 2,
           content |-> AuctionDm("u1", 1, 2)]}

DmStores ==
    {[i \in 1..Len(s) |-> DmEvent(i, s[i])] : s \in SeqsUpTo(DmInputs, MaxDms)}

\* The sessions: nobody logged in, or a user whose signer has or lacks
\* nip04.encrypt and nip04.decrypt.
Sessions ==
    {x \in [loggedIn : BOOLEAN, pubkey : {CurrentUser}, encrypt : BOOLEAN, decrypt : BOOLEAN] :
        x.loggedIn \/ (~x.encrypt /\ ~x.decrypt)}

\* try { decrypt; if (decrypted) { JSON.parse; ... return item } } catch {} return null:
\* whether an event gets past decryption and parsing.
Readable(user, event) ==
    user.decrypt /\ event.content.decrypts /\ event.content.json

InsertByCreatedAtAsc(sorted, item) ==
    LET after == {i \in 1..Len(sorted) : sorted[i].event.created_at > item.event.created_at}
        at == IF after = {} THEN Len(sorted) + 1 ELSE MinOf(after)
    IN SubSeq(sorted, 1, at - 1) \o <<item>> \o SubSeq(sorted, at, Len(sorted))

\* sort((a, b) => a.event.created_at - b.event.created_at)
RECURSIVE SortByCreatedAtAsc(_)
SortByCreatedAtAsc(items) ==
    IF items = <<>> THEN <<>>
    ELSE InsertByCreatedAtAsc(SortByCreatedAtAsc(SubSeq(items, 1, Len(items) - 1)),
                              items[Len(items)])

InsertItemByCreatedAtDesc(sorted, item) ==
    LET after == {i \in 1..Len(sorted) : sorted[i].event.created_at < item.event.created_at}
        at == IF after = {} THEN Len(sorted) + 1 ELSE MinOf(after)
    IN SubSeq(sorted, 1, at - 1) \o <<item>> \o SubSeq(sorted, at, Len(sorted))

\* sort((a, b) => b.event.created_at - a.event.created_at)
RECURSIVE SortItemsByCreatedAtDesc(_)
SortItemsByCreatedAtDesc(items) ==
    IF items = <<>> THEN <<>>
    ELSE InsertItemByCreatedAtDesc(SortItemsByCreatedAtDesc(SubSeq(items, 1, Len(items) - 1)),
                                   items[Len(items)])

\* useAuctionMessageThread with the decryption of all events as one step:
\* one event that fails leaves no message at all.
useAuctionMessageThreadFn_NoIsolation(store, user, participantPubkey, auctionId) ==
    IF ~user.loggedIn \/ participantPubkey = "" THEN <<>>
    ELSE LET sentMessages == SelectSeq(store, LAMBDA ev :
                                ev.pubkey = user.pubkey /\ ev.p = participantPubkey)
             receivedMessages == SelectSeq(store, LAMBDA ev :
                                    ev.pubkey = participantPubkey /\ ev.p = user.pubkey)
             allMessages == sentMessages \o receivedMessages
             kept == SelectSeq(allMessages, LAMBDA ev :
                        ~(auctionId # "" /\ ev.content.hasAuctionId
                          /\ ev.content.auction_id # auctionId))
         IN IF \E i \in 1..Len(allMessages) : ~Readable(user, allMessages[i]) THEN <<>>
            ELSE SortByCreatedAtAsc([i \in 1..Len(kept) |->
                                       [event |-> kept[i], decrypted |-> kept[i].content,
                                        isFromMe |-> kept[i].pubkey = user.pubkey]])

\* useAuctionMessageThread queryFn; auctionId "" stands for no auctionId.
useAuctionMessageThreadFn(store, user, participantPubkey, auctionId) ==
    IF ~user.loggedIn \/ participantPubkey = "" THEN <<>>
    ELSE LET sentMessages == SelectSeq(store, LAMBDA ev :
                                ev.pubkey = user.pubkey /\ ev.p = participantPubkey)
             receivedMessages == SelectSeq(store, LAMBDA ev :
                                    ev.pubkey = participantPubkey /\ ev.p = user.pubkey)
             allMessages == sentMessages \o receivedMessages
             kept == SelectSeq(allMessages, LAMBDA ev :
                        /\ Readable(user, ev)
                        /\ ~(auctionId # "" /\ ev.content.hasAuctionId
                             /\ ev.content.auction_id # auctionId))
         IN SortByCreatedAtAsc([i \in 1..Len(kept) |->
                                  [event |-> kept[i], decrypted |-> kept[i].content,
                                   isFromMe |-> kept[i].pubkey = user.pubkey]])

\* useEncryptedMessages queryFn: the payment messages sent to the user.
useEncryptedMessagesFn(store, user) ==
    IF ~user.loggedIn THEN <<>>
    ELSE LET events == SelectSeq(store, LAMBDA ev : ev.p = user.pubkey)
             kept == SelectSeq(events, LAMBDA ev :
                        /\ Readable(user, ev)
                        /\ (ev.content.type = 1 \/ ev.content.type = 2))
         IN SortItemsByCreatedAtDesc([i \in 1..Len(kept) |->
                                        [event |-> kept[i], decrypted |-> kept[i].content,
                                         isPaymentMessage |-> TRUE]])

\* Set.add in order of arrival: the first occurrence of each element.
RECURSIVE InOrderOfArrival(_)
InOrderOfArrival(seq) ==
    IF seq = <<>> THEN <<>>
    ELSE LET rest == InOrderOfArrival(SubSeq(seq, 1, Len(seq) - 1))
             x == seq[Len(seq)]
         IN IF \E i \in 1..Len(rest) : rest[i] = x THEN rest ELSE Append(rest, x)

\* thread.lastMessage and thread.unreadCount after the messages were pushed in turn.
RECURSIVE LastMessageOf(_)
LastMessageOf(msgs) ==
    IF msgs = <<>> THEN [has |-> FALSE, lastMessage |-> UndecryptableDm, unreadCount |-> 0]
    ELSE LET prev == LastMessageOf(SubSeq(msgs, 1, Len(msgs) - 1))
             msg == msgs[Len(msgs)]
         IN IF ~msg.isFromMe
               /\ (~prev.has \/ msg.event.created_at > prev.lastMessage.created_at)
            THEN [has |-> TRUE, lastMessage |-> msg.decrypted,
                  unreadCount |-> prev.unreadCount + 1]
            ELSE prev

\* a.lastMessage?.created_at || 0
LastTime(t) == IF t.hasLastMessage THEN t.lastMessage.created_at ELSE 0

InsertByLastTimeDesc(sorted, t) ==
    LET after == {i \in 1..Len(sorted) : LastTime(sorted[i]) < LastTime(t)}
        at == IF after = {} THEN Len(sorted) + 1 ELSE MinOf(after)
    IN SubSeq(sorted, 1, at - 1) \o <<t>> \o SubSeq(sorted, at, Len(sorted))

\* sort((a, b) => bLastTime - aLastTime)
RECURSIVE SortByLastTimeDesc(_)
SortByLastTimeDesc(threads) ==
    IF threads = <<>> THEN <<>>
    ELSE InsertByLastTimeDesc(SortByLastTimeDesc(SubSeq(threads, 1, Len(threads) - 1)),
                              threads[Len(threads)])

\* The other party of a direct message: its p tag when the user wrote it, else its author.
OtherPubkey(user, ev) == IF ev.pubkey = user.pubkey THEN ev.p ELSE ev.pubkey

\* useAuctionCommunications queryFn, after the listing query has answered
\* auctionEvents; auctionId "" stands for no auctionId.
useAuctionCommunicationsFn(auctionEvents, bidEvents, confEvents, store, user, auctionId) ==
    IF ~user.loggedIn \/ auctionId = "" THEN <<>>
    ELSE IF auctionEvents = <<>> THEN <<>>
    ELSE
    LET auctionEvent == auctionEvents[1]
        bidsOfAuction == QueryByETag(bidEvents, {auctionEvent.id})
        bidConfirmations == QueryByETag(confEvents, {auctionEvent.id})
        bidders == SelectSeq(bidsOfAuction, LAMBDA b : b.pubkey # user.pubkey)
        confirmed == SelectSeq(bidConfirmations, LAMBDA c : c.p # "" /\ c.p # user.pubkey)
        participantPubkeys ==
            InOrderOfArrival([i \in 1..Len(bidders) |-> bidders[i].pubkey]
                             \o [i \in 1..Len(confirmed) |-> confirmed[i].p])
        relevantParticipants ==
            IF user.pubkey = auctionEvent.pubkey THEN participantPubkeys
            ELSE <<auctionEvent.pubkey>>
        IsRelevant(q) == \E i \in 1..Len(relevantParticipants) : relevantParticipants[i] = q
        sentMessages == SelectSeq(store, LAMBDA ev : ev.pubkey = user.pubkey)
        receivedMessages == SelectSeq(store, LAMBDA ev :
                               IsRelevant(ev.pubkey) /\ ev.p = user.pubkey)
        allMessages == sentMessages \o receivedMessages
        kept == SelectSeq(allMessages, LAMBDA ev :
                   /\ OtherPubkey(user, ev) # "" /\ IsRelevant(OtherPubkey(user, ev))
                   /\ Readable(user, ev)
                   /\ ~(ev.content.hasAuctionId /\ ev.content.auction_id # auctionId))
        decryptedMessages == [i \in 1..Len(kept) |->
                                [event |-> kept[i], decrypted |-> kept[i].content,
                                 isFromMe |-> kept[i].pubkey = user.pubkey]]
        DirectOf(q) == SelectSeq(decryptedMessages, LAMBDA m : OtherPubkey(user, m.event) = q)
        parsable == SelectSeq(confirmed, LAMBDA c : c.content.json)
        SystemOf(q) ==
            LET mine == SelectSeq(parsable, LAMBDA c : c.p = q)
            IN [i \in 1..Len(mine) |->
                  [event |-> mine[i],
                   decrypted |-> AuctionDm(auctionId, 5, mine[i].created_at),
                   isFromMe |-> mine[i].pubkey = user.pubkey]]
        ThreadOf(q) ==
            LET last == LastMessageOf(DirectOf(q))
            IN [participant |-> q,
                messages |-> SortByCreatedAtAsc(DirectOf(q) \o SystemOf(q)),
                hasLastMessage |-> last.has, lastMessage |-> last.lastMessage,
                unreadCount |-> last.unreadCount]
    IN SortByLastTimeDesc([i \in 1..Len(relevantParticipants) |->
                             ThreadOf(relevantParticipants[i])])

NoMessages ==
    /\ session = [loggedIn |-> TRUE, pubkey |-> CurrentUser, encrypt |-> TRUE, decrypt |-> TRUE]
    /\ dmStore = <<>>
    /\ thread = [auctionId |-> ""] @@ Pending
    /\ communications = Pending /\ encryptedMessages = Pending

\* The thread with the first bidder, about the listing u1 or about no listing.
\* enabled: !!user?.pubkey && !!participantPubkey
QueryMessageThread ==
    /\ session.loggedIn
    /\ \E auctionId \in {"", "u1"} :
          thread' = [auctionId |-> auctionId]
                    @@ Resolved(useAuctionMessageThreadFn(dmStore, session, "bidder1", auctionId))
    /\ UNCHANGED <<extendOffer, dialogVars, sendVars, session, dmStore, communications, encryptedMessages,
                   storeVars, now, listingViews, bidViews, confViews, lifeViews, clientVars>>

\* The threads of the listing u1.  enabled: !!user?.pubkey && !!auctionId
QueryCommunications ==
    /\ session.loggedIn
    /\ \E auctionEvents \in QueryByDTag(listingStore, "u1") :
          communications' = Resolved(useAuctionCommunicationsFn(
              auctionEvents, bidStore, confStore, dmStore, session, "u1"))
    /\ UNCHANGED <<extendOffer, dialogVars, sendVars, session, dmStore, thread, encryptedMessages,
                   storeVars, now, listingViews, bidViews, confViews, lifeViews, clientVars>>

\* enabled: !!user?.pubkey
QueryEncryptedMessages ==
    /\ session.loggedIn
    /\ encryptedMessages' = Resolved(useEncryptedMessagesFn(dmStore, session))
    /\ UNCHANGED <<extendOffer, dialogVars, sendVars, session, dmStore, thread, communications,
                   storeVars, now, listingViews, bidViews, confViews, lifeViews, clientVars>>

(***************************************************************************)
(* SendPaymentRequestDialog and the send functions.  The memo of the form  *)
(* is left out: it is passed to makeInvoice and to the message and decides *)
(* nothing.                                                                *)
(***************************************************************************)
Amounts == {-1, 0, 5}

Descriptions == {"", " ", "Payment for auction: Lot"}

\* String.prototype.trim over Descriptions.
Trim(str) == IF str = " " THEN "" ELSE str

\* useState initial values, with defaultAmount = 0 and an auctionTitle.
DefaultPaymentData == [amount |-> 0, description |-> "Payment for auction: Lot"]

\* useWebLN().isLoading: true while a makeInvoice call has not returned.
isGeneratingInvoice == invoiceCalls # <<>>

\* useNostrPublish().isPending of one hook instance: its publication has not settled.
isPending(via) == \E k \in 1..Len(outbox) : outbox[k].via = via /\ outbox[k].at = "publish"

isSending == isPending("dialog")

DialogClosed ==
    /\ showPaymentDialog = FALSE
    /\ step = "form"
    /\ paymentData = DefaultPaymentData
    /\ generatedInvoice = ""
    /\ invoiceCalls = <<>>
    /\ resetTimers = 0
    /\ toast = ""
    /\ outbox = <<>>
    /\ sendResult = "none"
    /\ callResult = "none"

RemoveAt(seq, k) == SubSeq(seq, 1, k - 1) \o SubSeq(seq, k + 1, Len(seq))

\* AuctionCommunications.handleSendPaymentRequest: setShowPaymentDialog(true)
OpenDialog ==
    /\ ~showPaymentDialog
    /\ showPaymentDialog' = TRUE
    /\ UNCHANGED <<step, paymentData, generatedInvoice, invoiceCalls, resetTimers, sendVars,
                   extendOffer, messageVars, storeVars, now, listingViews, bidViews,
                   confViews, lifeViews, clientVars>>

\* onOpenChange(false): the Cancel button or the dialog's own close.
CloseDialog ==
    /\ showPaymentDialog
    /\ showPaymentDialog' = FALSE
    /\ UNCHANGED <<step, paymentData, generatedInvoice, invoiceCalls, resetTimers, sendVars,
                   extendOffer, messageVars, storeVars, now, listingViews, bidViews,
                   confViews, lifeViews, clientVars>>

\* The amount input of the form step: parseInt(value) || 0.
EditAmount ==
    /\ showPaymentDialog /\ session.loggedIn /\ step = "form"
    /\ \E a \in Amounts \ {paymentData.amount} :
          paymentData' = [paymentData EXCEPT !.amount = a]
    /\ UNCHANGED <<showPaymentDialog, step, generatedInvoice, invoiceCalls, resetTimers,
                   sendVars, extendOffer, messageVars, storeVars, now, listingViews,
                   bidViews, confViews, lifeViews, clientVars>>

\* The description textarea of the form step.
EditDescription ==
    /\ showPaymentDialog /\ session.loggedIn /\ step = "form"
    /\ \E d \in Descriptions \ {paymentData.description} :
          paymentData' = [paymentData EXCEPT !.description = d]
    /\ UNCHANGED <<showPaymentDialog, step, generatedInvoice, invoiceCalls, resetTimers,
                   sendVars, extendOffer, messageVars, storeVars, now, listingViews,
                   bidViews, confViews, lifeViews, clientVars>>

\* handleGenerateInvoice up to its await, with an amount >= 0 in place of amount > 0
\* and no check of the description.
GenerateClick_Unvalidated ==
    /\ showPaymentDialog /\ session.loggedIn /\ step = "form"
    /\ ~isGeneratingInvoice /\ paymentData.amount # 0 /\ Trim(paymentData.description) # ""
    /\ invoiceCalls' = Append(invoiceCalls, paymentData)
    /\ UNCHANGED <<toast, showPaymentDialog, step, paymentData, generatedInvoice, resetTimers,
                   outbox, sendResult, callResult, extendOffer, messageVars, storeVars, now,
                   listingViews, bidViews, confViews, lifeViews, clientVars>>

\* The Generate button (disabled while generating, with amount 0 or a blank
\* description) and handleGenerateInvoice up to its await.
GenerateClick ==
    /\ showPaymentDialog /\ session.loggedIn /\ step = "form"
    /\ ~isGeneratingInvoice /\ paymentData.amount # 0 /\ Trim(paymentData.description) # ""
    /\ IF paymentData.amount = 0 \/ paymentData.amount <= 0
       THEN toast' = "Invalid amount" /\ UNCHANGED invoiceCalls
       ELSE IF Trim(paymentData.description) = ""
       THEN toast' = "Description required" /\ UNCHANGED invoiceCalls
       ELSE invoiceCalls' = Append(invoiceCalls, paymentData) /\ UNCHANGED toast
    /\ UNCHANGED <<showPaymentDialog, step, paymentData, generatedInvoice, resetTimers,
                   outbox, sendResult, callResult, extendOffer, messageVars, storeVars, now,
                   listingViews, bidViews, confViews, lifeViews, clientVars>>

\* handleGenerateInvoice after its await: the provider returned an invoice,
\* returned nothing or threw.
InvoiceReturn ==
    /\ invoiceCalls # <<>>
    /\ invoiceCalls' = Tail(invoiceCalls)
    /\ \E outcome \in {"invoice", "nothing", "throws"} :
          IF outcome = "invoice"
          THEN generatedInvoice' = "lnbc" /\ step' = "invoice" /\ UNCHANGED toast
          ELSE /\ toast' = IF outcome = "nothing" THEN "Failed to generate invoice"
                           ELSE "Invoice generation failed"
               /\ UNCHANGED <<generatedInvoice, step>>
    /\ UNCHANGED <<showPaymentDialog, paymentData, resetTimers, outbox, sendResult, callResult,
                   extendOffer, messageVars, storeVars, now, listingViews, bidViews,
                   confViews, lifeViews, clientVars>>

\* The Back button of the invoice step.
Back ==
    /\ showPaymentDialog /\ session.loggedIn /\ step = "invoice"
    /\ step' = "form"
    /\ UNCHANGED <<showPaymentDialog, paymentData, generatedInvoice, invoiceCalls, resetTimers,
                   sendVars, extendOffer, messageVars, storeVars, now, listingViews,
                   bidViews, confViews, lifeViews, clientVars>>

\* handleSendPaymentRequest without the check of user.signer.nip04.encrypt.
SendClick_Unchecked ==
    /\ showPaymentDialog /\ session.loggedIn /\ step = "invoice" /\ ~isSending
    /\ Len(dmStore) + Len(outbox) < MaxDms
    /\ IF generatedInvoice = ""
       THEN toast' = "No invoice generated" /\ UNCHANGED <<step, outbox, sendResult>>
       ELSE /\ step' = "sending"
            /\ outbox' = Append(outbox, [via |-> "dialog", at |-> "encrypt"])
            /\ sendResult' = "pending"
            /\ UNCHANGED toast
    /\ UNCHANGED <<showPaymentDialog, paymentData, generatedInvoice, invoiceCalls, resetTimers,
                   callResult, extendOffer, messageVars, storeVars, now, listingViews,
                   bidViews, confViews, lifeViews, clientVars>>

\* The Send button (disabled while isSending) and handleSendPaymentRequest
\* up to the await of nip04.encrypt inside sendEncryptedMessage.
SendClick ==
    /\ showPaymentDialog /\ session.loggedIn /\ step = "invoice" /\ ~isSending
    /\ Len(dmStore) + Len(outbox) < MaxDms
    /\ IF ~session.encrypt
       THEN /\ toast' = "NIP-04 encryption not available"
            /\ UNCHANGED <<step, outbox, sendResult>>
       ELSE IF generatedInvoice = ""
       THEN toast' = "No invoice generated" /\ UNCHANGED <<step, outbox, sendResult>>
       ELSE /\ step' = "sending"
            /\ outbox' = Append(outbox, [via |-> "dialog", at |-> "encrypt"])
            /\ sendResult' = "pending"
            /\ UNCHANGED toast
    /\ UNCHANGED <<showPaymentDialog, paymentData, generatedInvoice, invoiceCalls, resetTimers,
                   callResult, extendOffer, messageVars, storeVars, now, listingViews,
                   bidViews, confViews, lifeViews, clientVars>>

\* AuctionCommunications.handleSendMessage: sendAuctionMessage up to its await.
SendAuctionMessage ==
    /\ Len(dmStore) + Len(outbox) < MaxDms
    /\ IF ~(session.loggedIn /\ session.encrypt)
       THEN /\ toast' = "Encryption not available"
            /\ callResult' = "rejected"
            /\ UNCHANGED outbox
       ELSE /\ outbox' = Append(outbox, [via |-> "auctionMessage", at |-> "encrypt"])
            /\ callResult' = "pending"
            /\ UNCHANGED toast
    /\ UNCHANGED <<sendResult, dialogVars, extendOffer, messageVars, storeVars, now,
                   listingViews, bidViews, confViews, lifeViews, clientVars>>

\* PaymentMessages.handlePaymentSuccess: sendEncryptedMessage up to its await.
SendEncryptedMessage ==
    /\ Len(dmStore) + Len(outbox) < MaxDms
    /\ IF ~(session.loggedIn /\ session.encrypt)
       THEN /\ toast' = "Encryption not available"
            /\ callResult' = "resolved"
            /\ UNCHANGED outbox
       ELSE /\ outbox' = Append(outbox, [via |-> "encryptedMessage", at |-> "encrypt"])
            /\ callResult' = "pending"
            /\ UNCHANGED toast
    /\ UNCHANGED <<sendResult, dialogVars, extendOffer, messageVars, storeVars, now,
                   listingViews, bidViews, confViews, lifeViews, clientVars>>

\* nip04.encrypt settles.  sendAuctionMessage rethrows a failure;
\* sendEncryptedMessage swallows it and returns, and handleSendPaymentRequest
\* goes on after its await: sent, the toast and the timer.
EncryptDone ==
    \E k \in 1..Len(outbox) : \E ok \in BOOLEAN :
       /\ outbox[k].at = "encrypt"
       /\ outbox' = IF ok THEN [outbox EXCEPT ![k].at = "publish"] ELSE RemoveAt(outbox, k)
       /\ IF outbox[k].via = "dialog"
          THEN /\ step' = "sent"
               /\ toast' = "Payment request sent"
               /\ resetTimers' = resetTimers + 1
               /\ sendResult' = IF ok THEN sendResult ELSE "encryptFailed"
               /\ UNCHANGED callResult
          ELSE /\ toast' = IF ok THEN toast ELSE "Encryption failed"
               /\ callResult' = IF outbox[k].via = "encryptedMessage" THEN "resolved"
                                ELSE IF ok THEN callResult ELSE "rejected"
               /\ UNCHANGED <<step, resetTimers, sendResult>>
       /\ UNCHANGED <<showPaymentDialog, paymentData, generatedInvoice, invoiceCalls,
                      extendOffer, messageVars, storeVars, now, listingViews, bidViews,
                      confViews, lifeViews, clientVars>>

\* The message a send publishes: the dialog's payment request carries no
\* auction_id, handleSendMessage's message carries it.
MessageOf(via) ==
    IF via = "dialog" THEN PlainDm(1, now)
    ELSE IF via = "encryptedMessage" THEN PlainDm(2, now)
    ELSE AuctionDm("u1", 5, now)

\* The publication settles: onSuccess or onError of createEvent.
PublishDone ==
    \E k \in 1..Len(outbox) : \E ok \in BOOLEAN :
       /\ outbox[k].at = "publish"
       /\ outbox' = RemoveAt(outbox, k)
       /\ dmStore' = IF ok
                     THEN Append(dmStore, DmEvent(Len(dmStore) + 1,
                              [pubkey |-> session.pubkey, p |-> "bidder1", created_at |-> now,
                               content |-> MessageOf(outbox[k].via)]))
                     ELSE dmStore
       /\ toast' = IF ok THEN "Message sent" ELSE "Failed to send message"
       /\ IF outbox[k].via = "dialog"
          THEN /\ sendResult' = IF ok THEN "published" ELSE "publishFailed"
               /\ UNCHANGED callResult
          ELSE /\ callResult' = IF outbox[k].via = "encryptedMessage" THEN callResult
                                ELSE IF ok THEN "resolved" ELSE "rejected"
               /\ UNCHANGED sendResult
       /\ UNCHANGED <<dialogVars, extendOffer, session, messageViews, storeVars, now,
                      listingViews, bidViews, confViews, lifeViews, clientVars>>

\* The setTimeout callback of handleSendPaymentRequest, 2000 ms after sent.
ResetTimer ==
    /\ resetTimers > 0
    /\ resetTimers' = resetTimers - 1
    /\ showPaymentDialog' = FALSE
    /\ step' = "form"
    /\ generatedInvoice' = ""
    /\ paymentData' = DefaultPaymentData
    /\ UNCHANGED <<invoiceCalls, sendVars, extendOffer, messageVars, storeVars, now,
                   listingViews, bidViews, confViews, lifeViews, clientVars>>

(***************************************************************************)
(* A bidder's own views: MyBidHistory and the My Bids tab of the dashboard.*)
(***************************************************************************)
\* useMyBids queryFn: the relay's response to {kinds: [1021], authors: [pubkey]}.
useMyBidsFn(store, pubkey) ==
    IF pubkey = "" THEN <<>>
    ELSE SortByCreatedAtDesc(SelectSeq(store, LAMBDA ev : ev.pubkey = pubkey))

\* MyBidHistory: the status derived from the messages related to a bid; of
\* a message only its type is modelled, not its text.
StatusFromMessages(relatedMessages) ==
    IF \E k \in 1..Len(relatedMessages) : relatedMessages[k].decrypted.type = 1
    THEN "winner" ELSE "pending"

\* MyBidHistory: bidsWithMessages.  The component calls
\* useAuctionCommunications() without an auctionId, so that query is never
\* enabled, communications stays undefined and relatedMessages is [] for
\* every bid.  The list is already in the order of its final sort.
MyBidHistoryOf(myBidsData) ==
    [i \in 1..Len(myBidsData) |->
        [bid |-> myBidsData[i], messages |-> <<>>, status |-> StatusFromMessages(<<>>)]]

\* DashboardPage, My Bids tab: a card per parsable bid with the badge Pending.
DashboardMyBidsOf(myBidsData) ==
    LET parsable == SelectSeq(myBidsData, LAMBDA b : b.content.json)
    IN [i \in 1..Len(parsable) |-> [bid |-> parsable[i], status |-> "pending"]]

\* The first bidder's client.  enabled: !!pubkey
QueryMyBids ==
    /\ myBids' = Resolved(useMyBidsFn(bidStore, "bidder1"))
    /\ UNCHANGED <<notifyVars, buyer, bidClients, sellerPage, extendOffer, messageVars, dialogVars, sendVars, storeVars, now,
                   listingViews, bidViews, confViews, lifeViews>>

(***************************************************************************)
(* useAuctionBidNotifications of the seller's client, for the first        *)
(* listing, with autoWelcomeMessage = true.  Times are in seconds.         *)
(***************************************************************************)
\* latest-bids queryFn: {kinds: [1021], '#e': [auctionEventId], limit: 10,
\* since: now - 3600}, sorted by created_at descending.  The stores hold
\* fewer events than the limit.
LatestBidsFn(store, auctionEventId, t) ==
    SortByCreatedAtDesc(SelectSeq(QueryByETag(store, {auctionEventId}),
                                  LAMBDA ev : ev.created_at >= t - 3600))

\* sendWelcomeMessages: for (const bid of latestBids), skipping the user's
\* own bids and the bids of 300 seconds or older; every other bid gets
\* sendGeneralMessage(bid.pubkey, ...).  The ids of the bids written for.
sendWelcomeMessages(latestBidsData, user, t) ==
    LET due == SelectSeq(latestBidsData,
                         LAMBDA bid : bid.pubkey # user /\ t - bid.created_at < 300)
    IN [i \in 1..Len(due) |-> due[i].id]

\* The effect body, run when one of its dependencies has changed.
WelcomeEffectOf(result) ==
    IF ~result.fetched \/ Len(result.data) = 0 THEN welcomed
    ELSE welcomed \o sendWelcomeMessages(result.data, CurrentUser, now)

\* A refetch of the latest-bids query; a result that differs from the
\* previous one re-runs the effect.  enabled: !!auctionEventId && !!user
QueryLatestBids ==
    /\ Len(welcomed) < MaxWelcomes
    /\ latestBids' = Resolved(LatestBidsFn(bidStore, AuctionEventId(1), now))
    /\ welcomed' = IF latestBids' # latestBids THEN WelcomeEffectOf(latestBids') ELSE welcomed
    /\ UNCHANGED <<myBids, buyer, bidClients, sellerPage, extendOffer, messageVars, dialogVars, sendVars, storeVars, now,
                   listingViews, bidViews, confViews, lifeViews>>

\* A render of the component: useAuctionMessageHelpers returns a new
\* sendGeneralMessage function on every render, and that function is a
\* dependency of the effect, so the effect runs again.
NotificationsRerender ==
    /\ Len(welcomed) < MaxWelcomes
    /\ latestBids.fetched
    /\ welcomed' = WelcomeEffectOf(latestBids)
    /\ UNCHANGED <<myBids, buyer, bidClients, sellerPage, latestBids, extendOffer, messageVars, dialogVars, sendVars,
                   storeVars, now, listingViews, bidViews, confViews, lifeViews>>

(***************************************************************************)
(* PaymentMessages in the buyer's client, with its PaymentDialog.  Both    *)
(* dialogs are modal: the list is clickable when neither is open, and the  *)
(* payment dialog lies over the message detail dialog.                     *)
(***************************************************************************)
\* The invoice of the lightning option of the i-th payment request.
InvoiceOf(i) == <<"lnbc", i>>

\* A payment request of the seller as useEncryptedMessages returns it:
\* decrypted and with type 1.  Of a payment option its type and, for the
\* lightning option, its link are kept.
PaymentRequestItem(i, optionTypes, paid) ==
    [event |-> [id |-> DmEventId(i), kind |-> 4, pubkey |-> "seller1", p |-> "bidder1"],
     decrypted |-> [id |-> <<"order", i>>, type |-> 1, paid |-> paid,
                    payment_options |-> [k \in 1..Len(optionTypes) |->
                        [type |-> optionTypes[k],
                         link |-> IF optionTypes[k] = "ln" THEN InvoiceOf(i) ELSE <<"url", i>>]]],
     isPaymentMessage |-> TRUE]

\* Up to two payment requests with no option, a lightning option or a link.
Inboxes ==
    LET Shapes == {<<>>, <<"ln">>, <<"url">>} \X BOOLEAN
    IN {<<PaymentRequestItem(1, x[1], x[2])>> : x \in Shapes}
       \cup {<<PaymentRequestItem(1, x[1], x[2]), PaymentRequestItem(2, y[1], y[2])>> :
                x \in Shapes, y \in Shapes}

\* useState(null), useState(false), useState(''), useState('pending');
\* sent: the messages handed to createEvent by sendEncryptedMessage.
BuyerIdle ==
    [selectedMessage |-> 0, paymentDialogOpen |-> FALSE, selectedInvoice |-> <<>>,
     paymentStatus |-> "pending", sent |-> <<>>]

\* payment_options.find(opt => opt.type === 'ln'): its position, 0 for none.
LightningOption(message) ==
    LET ln == {k \in 1..Len(message.decrypted.payment_options) :
                  message.decrypted.payment_options[k].type = "ln"}
    IN IF ln = {} THEN 0 ELSE MinOf(ln)

\* PaymentMessages.handlePayInvoice
handlePayInvoice(invoice) ==
    [buyer EXCEPT !.selectedInvoice = invoice, !.paymentDialogOpen = TRUE]

\* A click on a row of the list: setSelectedMessage(message).
SelectMessage ==
    /\ buyer.selectedMessage = 0 /\ ~buyer.paymentDialogOpen
    /\ \E i \in 1..Len(encryptedMessages.data) :
          buyer' = [buyer EXCEPT !.selectedMessage = i]
    /\ UNCHANGED <<myBids, notifyVars, bidClients, sellerPage, extendOffer, messageVars, dialogVars, sendVars,
                   storeVars, now, listingViews, bidViews, confViews, lifeViews>>

\* The message detail dialog closes: onOpenChange={() => setSelectedMessage(null)}
CloseMessage ==
    /\ buyer.selectedMessage # 0 /\ ~buyer.paymentDialogOpen
    /\ buyer' = [buyer EXCEPT !.selectedMessage = 0]
    /\ UNCHANGED <<myBids, notifyVars, bidClients, sellerPage, extendOffer, messageVars, dialogVars, sendVars,
                   storeVars, now, listingViews, bidViews, confViews, lifeViews>>

\* Pay Now in a row of the list, shown for payment_options.length > 0 and
\* !isPaid: e.stopPropagation(), then handlePayInvoice of the lightning option.
PayNow ==
    /\ buyer.selectedMessage = 0 /\ ~buyer.paymentDialogOpen
    /\ \E i \in 1..Len(encryptedMessages.data) :
          LET message == encryptedMessages.data[i] IN
          /\ Len(message.decrypted.payment_options) > 0 /\ ~message.decrypted.paid
          /\ buyer' = IF LightningOption(message) # 0
                      THEN handlePayInvoice(
                               message.decrypted.payment_options[LightningOption(message)].link)
                      ELSE buyer
    /\ UNCHANGED <<myBids, notifyVars, bidClients, sellerPage, extendOffer, messageVars, dialogVars, sendVars,
                   storeVars, now, listingViews, bidViews, confViews, lifeViews>>

\* Pay at a lightning option in the message detail dialog.
DetailPay ==
    /\ buyer.selectedMessage # 0 /\ ~buyer.paymentDialogOpen
    /\ LET options == encryptedMessages.data[buyer.selectedMessage].decrypted.payment_options
       IN \E k \in 1..Len(options) :
             /\ options[k].type = "ln"
             /\ buyer' = handlePayInvoice(options[k].link)
    /\ UNCHANGED <<myBids, notifyVars, bidClients, sellerPage, extendOffer, messageVars, dialogVars, sendVars,
                   storeVars, now, listingViews, bidViews, confViews, lifeViews>>

\* Cancel or Close of the PaymentDialog: onOpenChange(false)
ClosePaymentDialog ==
    /\ buyer.paymentDialogOpen /\ buyer.paymentStatus # "paying"
    /\ buyer' = [buyer EXCEPT !.paymentDialogOpen = FALSE]
    /\ UNCHANGED <<myBids, notifyVars, bidClients, sellerPage, extendOffer, messageVars, dialogVars, sendVars,
                   storeVars, now, listingViews, bidViews, confViews, lifeViews>>

\* PaymentMessages.handlePaymentSuccess with sendEncryptedMessage, which
\* returns after a toast when the signer has no nip04.encrypt or when the
\* encryption fails, and hands the kind 4 event to createEvent otherwise.
handlePaymentSuccess(paid, encrypted) ==
    IF paid.selectedMessage = 0 THEN paid
    ELSE LET selectedMessage == encryptedMessages.data[paid.selectedMessage]
             confirmationMessage == [id |-> selectedMessage.decrypted.id, type |-> 2,
                                     paid |-> TRUE, shipped |-> FALSE]
         IN [paid EXCEPT
                !.sent = IF session.encrypt /\ encrypted
                         THEN Append(@, [p |-> selectedMessage.event.pubkey,
                                         message |-> confirmationMessage])
                         ELSE @,
                !.paymentDialogOpen = FALSE]

\* PaymentDialog.handleWebLNPayment, from the click to its last await: the
\* button is there while paymentStatus is not success and is disabled
\* without an invoice.  enable() or sendPayment fails, or the payment is
\* made and onPaymentSuccess is called.
handleWebLNPayment ==
    /\ buyer.paymentDialogOpen
    /\ buyer.paymentStatus \notin {"success", "paying"}
    /\ buyer.selectedInvoice # <<>>
    /\ \E outcome \in {"enableFailed", "paymentFailed", "paid"} : \E encrypted \in BOOLEAN :
          buyer' = IF outcome = "paid"
                   THEN handlePaymentSuccess([buyer EXCEPT !.paymentStatus = "success"], encrypted)
                   ELSE [buyer EXCEPT !.paymentStatus = "failed"]
    /\ UNCHANGED <<myBids, notifyVars, bidClients, sellerPage, extendOffer, messageVars, dialogVars, sendVars,
                   storeVars, now, listingViews, bidViews, confViews, lifeViews>>

(***************************************************************************)
(* BidDialog on the AuctionsPage of a bidder's client, opened on the first *)
(* listing.  Every client polls useAuctionCurrentBids for itself.          *)
(***************************************************************************)
\* The amounts and the country codes a bidder types.
TypedAmounts == {0, 20}

TypedCountries == {"", "US"}

\* A client after mount: nothing polled, the dialog closed.  shown holds
\* what the last submission or publication displayed: the messages at the
\* fields and the title of the toast.
BidderClient(loggedIn) ==
    [loggedIn |-> loggedIn, currentBids |-> Pending, open |-> FALSE,
     amount |-> 0, buyerCountry |-> "", shown |-> {}, isPending |-> FALSE,
     publishing |-> 0]

\* currentBid={getCurrentBid(selectedAuction.id)}, with data: currentBids = {}
CurrentBidProp(client) ==
    ListGetCurrentBidOf(client.currentBids.data, useAuctionsFn(listingStore),
                        TwoListings[1].id)

\* form.reset({amount: currentBid + minBidIncrement, ..., buyerCountry: ''})
ResetBidForm(client) ==
    [client EXCEPT !.amount = CurrentBidProp(client) + 100, !.buyerCountry = "",
                   !.shown = @ \ {"Bid amount must be at least 1 sat",
                                  "Please enter your country code"}]

\* A refetch of useAuctionCurrentBids in the client; the effect on
\* [open, currentBid, ...] resets the form of an open dialog when the
\* current bid has changed.
PollCurrentBids(c) ==
    LET polled == [bidClients[c] EXCEPT !.currentBids =
                      Resolved(useAuctionCurrentBidsFn(QueryByETag(bidStore,
                          {TwoListings[i].id : i \in 1..Len(TwoListings)})))]
    IN /\ polled # bidClients[c]
       /\ bidClients' = [bidClients EXCEPT ![c] =
             IF polled.open /\ CurrentBidProp(polled) # CurrentBidProp(bidClients[c])
             THEN ResetBidForm(polled) ELSE polled]
       /\ UNCHANGED <<myBids, notifyVars, buyer, sellerPage, extendOffer, messageVars, dialogVars,
                      sendVars, storeVars, now, listingViews, bidViews, confViews, lifeViews>>

\* AuctionsPage.handleBid, and the effect that resets the form on opening.
OpenBidDialog(c) ==
    /\ ~bidClients[c].open
    /\ bidClients' = [bidClients EXCEPT ![c] = ResetBidForm([@ EXCEPT !.open = TRUE])]
    /\ UNCHANGED <<myBids, notifyVars, buyer, sellerPage, extendOffer, messageVars, dialogVars,
                   sendVars, storeVars, now, listingViews, bidViews, confViews, lifeViews>>

\* Cancel: onOpenChange(false)
CancelBidDialog(c) ==
    /\ bidClients[c].open
    /\ bidClients' = [bidClients EXCEPT ![c].open = FALSE]
    /\ UNCHANGED <<myBids, notifyVars, buyer, sellerPage, extendOffer, messageVars, dialogVars,
                   sendVars, storeVars, now, listingViews, bidViews, confViews, lifeViews>>

\* The amount input, onChange: parseInt(e.target.value) || 0
TypeAmount(c) ==
    /\ bidClients[c].open
    /\ \E amount \in TypedAmounts :
          /\ amount # bidClients[c].amount
          /\ bidClients' = [bidClients EXCEPT ![c].amount = amount]
    /\ UNCHANGED <<myBids, notifyVars, buyer, sellerPage, extendOffer, messageVars, dialogVars,
                   sendVars, storeVars, now, listingViews, bidViews, confViews, lifeViews>>

\* The country field.
TypeCountry(c) ==
    /\ bidClients[c].open
    /\ \E country \in TypedCountries :
          /\ country # bidClients[c].buyerCountry
          /\ bidClients' = [bidClients EXCEPT ![c].buyerCountry = country]
    /\ UNCHANGED <<myBids, notifyVars, buyer, sellerPage, extendOffer, messageVars, dialogVars,
                   sendVars, storeVars, now, listingViews, bidViews, confViews, lifeViews>>

\* zodResolver(bidSchema): the messages of the fields that fail; the
\* shipping option always holds one of the two enum values.
bidSchema(client) ==
    (IF client.amount < 1 THEN {"Bid amount must be at least 1 sat"} ELSE {})
    \cup (IF client.buyerCountry = "" THEN {"Please enter your country code"} ELSE {})

\* BidDialog.onSubmit with <= replaced by <.
onSubmit_EqualAccepted(client) ==
    IF ~client.loggedIn
    THEN [client EXCEPT !.shown = {"Authentication required"}]
    ELSE IF client.amount < CurrentBidProp(client)
    THEN [client EXCEPT !.shown = {"Invalid bid amount"}]
    ELSE [client EXCEPT !.shown = {}, !.isPending = TRUE, !.publishing = client.amount]

\* BidDialog.onSubmit up to createEvent.
onSubmit(client) ==
    IF ~client.loggedIn
    THEN [client EXCEPT !.shown = {"Authentication required"}]
    ELSE IF client.amount <= CurrentBidProp(client)
    THEN [client EXCEPT !.shown = {"Invalid bid amount"}]
    ELSE [client EXCEPT !.shown = {}, !.isPending = TRUE, !.publishing = client.amount]

\* Place Bid, disabled={isPending || !user}: form.handleSubmit(onSubmit)
\* validates first and calls onSubmit when no field fails.
SubmitBid(c) ==
    /\ bidClients[c].open /\ ~bidClients[c].isPending /\ bidClients[c].loggedIn
    /\ Len(bidStore) + Cardinality({x \in DOMAIN bidClients : bidClients[x].isPending}) < MaxBids
    /\ bidClients' = [bidClients EXCEPT ![c] =
          IF bidSchema(@) # {} THEN [@ EXCEPT !.shown = bidSchema(bidClients[c])]
          ELSE onSubmit(@)]
    /\ UNCHANGED <<myBids, notifyVars, buyer, sellerPage, extendOffer, messageVars, dialogVars,
                   sendVars, storeVars, now, listingViews, bidViews, confViews, lifeViews>>

\* createEvent settles.  onSuccess: toast, onOpenChange(false), form.reset();
\* onError: toast.  The event is the kind 1021 bid with ['e', auction.id].
PublishBidDone(c) ==
    /\ bidClients[c].isPending
    /\ \E ok \in BOOLEAN :
          /\ bidStore' = IF ok
                THEN Append(bidStore, BidEvent(Len(bidStore) + 1,
                        [pubkey |-> c, created_at |-> now, e |-> <<TwoListings[1].id>>,
                         content |-> NumberBid(bidClients[c].publishing)]))
                ELSE bidStore
          /\ bidClients' = [bidClients EXCEPT ![c] =
                IF ok THEN [@ EXCEPT !.isPending = FALSE, !.open = FALSE,
                                     !.shown = {"Bid placed successfully"}]
                ELSE [@ EXCEPT !.isPending = FALSE, !.shown = {"Failed to place bid"}]]
    /\ UNCHANGED <<myBids, notifyVars, buyer, sellerPage, extendOffer, messageVars, dialogVars,
                   sendVars, listingStore, confStore, now, listingViews, bidViews,
                   confViews, lifeViews>>

BidDialogStep(c) ==
    \/ PollCurrentBids(c) \/ OpenBidDialog(c) \/ CancelBidDialog(c)
    \/ TypeAmount(c) \/ TypeCountry(c) \/ SubmitBid(c) \/ PublishBidDone(c)

(***************************************************************************)
(* AuctionManagement of the first listing in its seller's client, with     *)
(* useBidConfirmation, useAuctionStatusUpdate and usePaymentRequest.  A    *)
(* publication settles within the step that starts it, and the relay puts  *)
(* a new event at a place of its choice in its responses.                  *)
(***************************************************************************)
\* useState(null), useState(false), useState(''); published: the events of
\* kind 1023 and kind 4 that the relay has taken from this client.
SellerIdle ==
    [selectedBid |-> <<>>, paymentDialogOpen |-> FALSE, lightningInvoice |-> "",
     published |-> <<>>]

InsertAt(seq, pos, x) == SubSeq(seq, 1, pos - 1) \o <<x>> \o SubSeq(seq, pos, Len(seq))

\* useBidConfirmation.confirmBid: the kind 1022 event signed by the user.
confirmBid(bidEvent, status) ==
    ConfEvent(Len(confStore) + 1,
              [pubkey |-> CurrentUser, created_at |-> now,
               bid |-> CHOOSE i \in 1..Len(TwoBids) : TwoBids[i].id = bidEvent.id,
               content |-> Confirmation(status)])

\* The number of stored confirmations made in this session of the page.
ConfirmedNow ==
    Cardinality({i \in 1..Len(confStore) : confStore[i].created_at = now})

\* createEvent of a confirmation: published, or refused by the relay.
PublishConfirmation(event) ==
    \/ \E pos \in 1..(Len(confStore) + 1) : confStore' = InsertAt(confStore, pos, event)
    \/ UNCHANGED confStore

\* usePaymentRequest.sendPaymentRequest: the kind 4 event whose content is
\* JSON.stringify(paymentData), not a ciphertext; paymentData has the
\* fields id, type, message and payment_options.
sendPaymentRequest(winnerPubkey, paymentOptions) ==
    [kind |-> 4, pubkey |-> CurrentUser, p |-> winnerPubkey,
     content |-> [encrypted |-> FALSE,
                  payload |-> [type |-> 1, hasPaid |-> FALSE, hasShipped |-> FALSE,
                               payment_options |-> paymentOptions]]]

acceptedBids == SelectSeq(bidsWithConfirmations.data, LAMBDA item : item.status = "accepted")

pendingBids == SelectSeq(bidsWithConfirmations.data, LAMBDA item : item.status = "pending")

\* bidsWithConfirmations?.find(item => item.status === 'winner'), <<>> for none.
winner == SelectSeq(bidsWithConfirmations.data, LAMBDA item : item.status = "winner")

\* Review at a pending bid: setSelectedBid(bidItem)
ReviewBid ==
    /\ sellerPage.selectedBid = <<>> /\ ~sellerPage.paymentDialogOpen
    /\ \E k \in 1..Len(pendingBids) :
          sellerPage' = [sellerPage EXCEPT !.selectedBid = <<pendingBids[k]>>]
    /\ UNCHANGED <<myBids, notifyVars, buyer, bidClients, extendOffer, messageVars,
                   dialogVars, sendVars, storeVars, now, listingViews, bidViews, confViews,
                   lifeViews>>

\* The review dialog closes: onOpenChange={() => setSelectedBid(null)}
CloseReview ==
    /\ sellerPage.selectedBid # <<>>
    /\ sellerPage' = [sellerPage EXCEPT !.selectedBid = <<>>]
    /\ UNCHANGED <<myBids, notifyVars, buyer, bidClients, extendOffer, messageVars,
                   dialogVars, sendVars, storeVars, now, listingViews, bidViews, confViews,
                   lifeViews>>

\* AuctionManagement.handleConfirmBid, from Accept or Reject of the dialog.
handleConfirmBid ==
    /\ sellerPage.selectedBid # <<>>
    /\ ConfirmedNow < MaxConfs
    /\ \E status \in {"accepted", "rejected"} :
          PublishConfirmation(confirmBid(sellerPage.selectedBid[1].bid, status))
    /\ sellerPage' = [sellerPage EXCEPT !.selectedBid = <<>>]
    /\ UNCHANGED <<myBids, notifyVars, buyer, bidClients, extendOffer, messageVars,
                   dialogVars, sendVars, listingStore, bidStore, now, listingViews,
                   bidViews, confViews, lifeViews>>

\* AuctionManagement.handleSelectWinner, from Select Winner at one of the
\* first five accepted bids once the auction has ended: confirmBid with
\* status winner, then updateAuctionStatus with status completed.
handleSelectWinner ==
    /\ management.ran /\ management.isAuctionEnded
    /\ sellerPage.selectedBid = <<>> /\ ~sellerPage.paymentDialogOpen
    /\ ConfirmedNow < MaxConfs /\ Len(sellerPage.published) < MaxDms
    /\ \E k \in 1..Len(acceptedBids) :
          /\ k <= 5
          /\ PublishConfirmation(confirmBid(acceptedBids[k].bid, "winner"))
          /\ \E ok \in BOOLEAN :
                sellerPage' = [sellerPage EXCEPT !.published =
                    IF ok THEN Append(@, [kind |-> 1023, pubkey |-> CurrentUser,
                                          p |-> acceptedBids[k].bid.pubkey,
                                          content |-> [status |-> "completed"]])
                    ELSE @]
    /\ UNCHANGED <<myBids, notifyVars, buyer, bidClients, extendOffer, messageVars,
                   dialogVars, sendVars, listingStore, bidStore, now, listingViews,
                   bidViews, confViews, lifeViews>>

\* Send Payment Request at the winner: setPaymentDialogOpen(true)
OpenPaymentRequest ==
    /\ sellerPage.selectedBid = <<>> /\ ~sellerPage.paymentDialogOpen
    /\ winner # <<>>
    /\ sellerPage' = [sellerPage EXCEPT !.paymentDialogOpen = TRUE]
    /\ UNCHANGED <<myBids, notifyVars, buyer, bidClients, extendOffer, messageVars,
                   dialogVars, sendVars, storeVars, now, listingViews, bidViews, confViews,
                   lifeViews>>

\* The invoice field: setLightningInvoice(e.target.value)
TypeInvoice ==
    /\ sellerPage.paymentDialogOpen
    /\ \E invoice \in {"", "lnbc"} :
          /\ invoice # sellerPage.lightningInvoice
          /\ sellerPage' = [sellerPage EXCEPT !.lightningInvoice = invoice]
    /\ UNCHANGED <<myBids, notifyVars, buyer, bidClients, extendOffer, messageVars,
                   dialogVars, sendVars, storeVars, now, listingViews, bidViews, confViews,
                   lifeViews>>

\* AuctionManagement.handleSendPaymentRequest; the button is disabled
\* without an invoice.
handleSendPaymentRequest ==
    /\ sellerPage.paymentDialogOpen /\ sellerPage.lightningInvoice # ""
    /\ Len(sellerPage.published) < MaxDms
    /\ IF winner = <<>> THEN UNCHANGED sellerPage
       ELSE \E ok \in BOOLEAN :
               sellerPage' = [sellerPage EXCEPT
                  !.published = IF ok
                     THEN Append(@, sendPaymentRequest(winner[1].bid.pubkey,
                                     <<[type |-> "ln", link |-> sellerPage.lightningInvoice]>>))
                     ELSE @,
                  !.paymentDialogOpen = FALSE,
                  !.lightningInvoice = ""]
    /\ UNCHANGED <<myBids, notifyVars, buyer, bidClients, extendOffer, messageVars,
                   dialogVars, sendVars, storeVars, now, listingViews, bidViews, confViews,
                   lifeViews>>

\* The clients of the bidder, the buyer and the notified seller before use.
ClientsIdle ==
    /\ myBids = Pending
    /\ latestBids = Pending /\ welcomed = <<>>
    /\ buyer = BuyerIdle
    /\ bidClients = <<>>
    /\ sellerPage = SellerIdle

(***************************************************************************)
(* Specifications.                                                         *)
(***************************************************************************)
NoViewRun ==
    /\ now = 0
    /\ card = [ran |-> FALSE, now |-> 0, isActive |-> FALSE,
               timeLeft |-> [text |-> "", seconds |-> 0]]
    /\ detail = [ran |-> FALSE, now |-> 0, isActive |-> FALSE,
                 timeLeft |-> [text |-> "", seconds |-> 0]]
    /\ management = [ran |-> FALSE, now |-> 0, isAuctionEnded |-> FALSE]
    /\ dashboard = [ran |-> FALSE, now |-> 0, status |-> ""]
    /\ extendOffer = [ran |-> FALSE, now |-> 0, shown |-> FALSE]

NothingRun == NoViewRun /\ NoMessages /\ DialogClosed /\ ClientsIdle

\* The relay holds any listing events; nothing is fetched yet.
InitListings ==
    /\ listingStore \in ListingStores
    /\ bidStore = <<>>
    /\ confStore = <<>>
    /\ auctions = Pending /\ myAuctions = Pending /\ auction = Pending
    /\ currentBids = Pending /\ bids = Pending /\ bidStats = Pending
    /\ confirmations = Pending /\ bidsWithConfirmations = Pending
    /\ NothingRun

NextListings == QueryAuctions \/ QueryMyAuctions \/ QueryAuctionByDTag

SpecListings == InitListings /\ [][NextListings]_vars

\* The relay holds two listings, any bids and no confirmation; the detail
\* page shows the first listing.
InitBids ==
    /\ listingStore = TwoListings
    /\ bidStore \in BidStores
    /\ confStore = <<>>
    /\ auctions = Pending /\ myAuctions = Pending
    /\ auction = Resolved(TwoListings[1])
    /\ currentBids = Pending /\ bids = Pending /\ bidStats = Pending
    /\ confirmations = Resolved(<<>>) /\ bidsWithConfirmations = Pending
    /\ NothingRun

NextBids == QueryAuctions \/ QueryCurrentBids \/ QueryAuctionBids \/ QueryBidStats

SpecBids == InitBids /\ [][NextBids]_vars

\* The same with the dashboard of the first listing's seller.
NextDashboard == NextBids \/ QueryMyAuctions

SpecDashboard == InitBids /\ [][NextDashboard]_vars

\* The relay holds the first listing, two bids on it and any confirmations.
InitConfirmations ==
    /\ listingStore = TwoListings
    /\ bidStore = TwoBids
    /\ confStore \in ConfStores
    /\ auctions = Pending /\ myAuctions = Pending
    /\ auction = Resolved(TwoListings[1])
    /\ currentBids = Pending /\ bids = Pending /\ bidStats = Pending
    /\ confirmations = Pending /\ bidsWithConfirmations = Pending
    /\ NothingRun

NextConfirmations == QueryAuctionBids \/ QueryConfirmations \/ QueryBidsWithConfirmations

SpecConfirmations == InitConfirmations /\ [][NextConfirmations]_vars

\* One listing, loaded in every view, and the clock running.
InitLifecycle ==
    /\ \E l \in LifeListings :
          /\ listingStore = <<l>>
          /\ auctions = Resolved(<<l>>) /\ myAuctions = Resolved(<<l>>)
          /\ auction = Resolved(l)
    /\ bidStore = <<>>
    /\ confStore = <<>>
    /\ currentBids = Pending /\ bids = Pending /\ bidStats = Pending
    /\ confirmations = Pending /\ bidsWithConfirmations = Pending
    /\ NothingRun

NextLifecycle == Tick \/ CardTimer \/ DetailTimer \/ ManagementMount \/ DashboardRender

SpecLifecycle == InitLifecycle /\ [][NextLifecycle]_vars

\* The auto-extend listing with any bids, loaded in the list and on the
\* detail page, and the clock moving through the end of the auction.
InitExtend ==
    /\ \E l \in ExtendListings :
          /\ listingStore = <<l>>
          /\ auctions = Resolved(<<l>>) /\ myAuctions = Resolved(<<l>>)
          /\ auction = Resolved(l)
    /\ bidStore \in ExtendBidStores
    /\ confStore = <<>>
    /\ currentBids = Pending /\ bids = Pending /\ bidStats = Pending
    /\ confirmations = Pending /\ bidsWithConfirmations = Pending
    /\ NothingRun

NextExtend == Advance \/ CardTimer \/ QueryAuctionBids \/ ManagementRender

SpecExtend == InitExtend /\ [][NextExtend]_vars

\* A listing of the current user with or without a reserve and any bids,
\* shown on the list page, on the detail page and on the dashboard.
InitReserve ==
    /\ \E l \in ReserveListings :
          /\ listingStore = <<l>>
          /\ auction = Resolved(l)
    /\ bidStore \in ReserveBidStores
    /\ confStore = <<>>
    /\ auctions = Pending /\ myAuctions = Pending
    /\ currentBids = Pending /\ bids = Pending /\ bidStats = Pending
    /\ confirmations = Resolved(<<>>) /\ bidsWithConfirmations = Pending
    /\ NothingRun

SpecReserve == InitReserve /\ [][NextDashboard]_vars

\* The message threads of the seller of the first listing, who has two bidders.
ThreadConfStores ==
    {<<>>,
     <<ConfEvent(1, [pubkey |-> "seller1", created_at |-> 2, bid |-> 1,
                     content |-> Confirmation("accepted")])>>}

InitThreads ==
    /\ listingStore = TwoListings
    /\ bidStore = TwoBids
    /\ confStore \in ThreadConfStores
    /\ auctions = Pending /\ myAuctions = Pending /\ auction = Pending
    /\ currentBids = Pending /\ bids = Pending /\ bidStats = Pending
    /\ confirmations = Pending /\ bidsWithConfirmations = Pending
    /\ NoViewRun
    /\ session \in {x \in Sessions : x.loggedIn /\ x.encrypt}
    /\ dmStore \in DmStores
    /\ thread = [auctionId |-> ""] @@ Pending
    /\ communications = Pending /\ encryptedMessages = Pending
    /\ DialogClosed /\ ClientsIdle

NextThreads == QueryMessageThread \/ QueryCommunications \/ QueryEncryptedMessages

SpecThreads == InitThreads /\ [][NextThreads]_vars

\* The seller of the first listing sends a payment request and messages to
\* the first bidder; the signer may lack nip04, or nobody is logged in.
InitPayment ==
    /\ listingStore = TwoListings
    /\ bidStore = TwoBids
    /\ confStore = <<>>
    /\ auctions = Pending /\ myAuctions = Pending /\ auction = Pending
    /\ currentBids = Pending /\ bids = Pending /\ bidStats = Pending
    /\ confirmations = Pending /\ bidsWithConfirmations = Pending
    /\ NoViewRun
    /\ session \in {x \in Sessions : x.decrypt = x.encrypt}
    /\ dmStore = <<>>
    /\ thread = [auctionId |-> ""] @@ Pending
    /\ communications = Pending /\ encryptedMessages = Pending
    /\ DialogClosed /\ ClientsIdle

NextPayment ==
    \/ OpenDialog \/ CloseDialog \/ EditAmount \/ EditDescription
    \/ GenerateClick \/ InvoiceReturn \/ Back \/ SendClick
    \/ EncryptDone \/ PublishDone \/ ResetTimer

SpecPayment == InitPayment /\ [][NextPayment]_vars

\* The three senders of encrypted messages, with the dialog at its invoice
\* step: an invoice for 5 sats has been generated.
InitSend ==
    /\ listingStore = TwoListings
    /\ bidStore = TwoBids
    /\ confStore = <<>>
    /\ auctions = Pending /\ myAuctions = Pending /\ auction = Pending
    /\ currentBids = Pending /\ bids = Pending /\ bidStats = Pending
    /\ confirmations = Pending /\ bidsWithConfirmations = Pending
    /\ NoViewRun
    /\ session \in {x \in Sessions : x.decrypt = x.encrypt}
    /\ dmStore = <<>>
    /\ thread = [auctionId |-> ""] @@ Pending
    /\ communications = Pending /\ encryptedMessages = Pending
    /\ showPaymentDialog = session.loggedIn
    /\ step = IF session.loggedIn THEN "invoice" ELSE "form"
    /\ paymentData = IF session.loggedIn THEN [DefaultPaymentData EXCEPT !.amount = 5]
                     ELSE DefaultPaymentData
    /\ generatedInvoice = IF session.loggedIn THEN "lnbc" ELSE ""
    /\ invoiceCalls = <<>>
    /\ resetTimers = 0
    /\ toast = ""
    /\ outbox = <<>>
    /\ sendResult = "none"
    /\ callResult = "none"
    /\ ClientsIdle

NextSend ==
    \/ SendClick \/ SendAuctionMessage \/ SendEncryptedMessage
    \/ EncryptDone \/ PublishDone \/ ResetTimer

SpecSend == InitSend /\ [][NextSend]_vars

\* The list page and the detail page when the bid queries can fail.
NextUnavailable ==
    \/ QueryAuctions \/ QueryCurrentBids \/ QueryCurrentBidsFails
    \/ QueryAuctionBids \/ QueryAuctionBidsFails

SpecUnavailable == InitBids /\ [][NextUnavailable]_vars

\* The first bidder looks at the own bids while the seller's confirmations
\* are in the relay.
NextMyBids == QueryMyBids \/ QueryAuctionBids \/ QueryConfirmations

SpecMyBids == InitConfirmations /\ [][NextMyBids]_vars

\* The relay holds the listing u1 as first published and, possibly, as
\* republished by its seller under the same d tag; the stored bids tag the
\* event id of the first version.
RepublishedListing ==
    ListingEvent(2, [pubkey |-> "seller1", created_at |-> 2, d |-> "u1",
                     content |-> ValidListingContent("u1")])

InitRepublish ==
    /\ listingStore \in {<<TwoListings[1]>>, <<TwoListings[1], RepublishedListing>>}
    /\ bidStore \in BidStores
    /\ confStore = <<>>
    /\ auctions = Pending /\ myAuctions = Pending
    /\ auction = Pending
    /\ currentBids = Pending /\ bids = Pending /\ bidStats = Pending
    /\ confirmations = Resolved(<<>>) /\ bidsWithConfirmations = Pending
    /\ NothingRun

NextRepublish == QueryAuctionByDTag \/ QueryAuctionBids

SpecRepublish == InitRepublish /\ [][NextRepublish]_vars

\* The seller's client follows the bids on the first listing.
NextWelcome == QueryLatestBids \/ NotificationsRerender

SpecWelcome == InitBids /\ [][NextWelcome]_vars

\* The buyer's client with the payment requests of the seller loaded.
InitPay ==
    /\ listingStore = TwoListings
    /\ bidStore = TwoBids
    /\ confStore = <<>>
    /\ auctions = Pending /\ myAuctions = Pending /\ auction = Pending
    /\ currentBids = Pending /\ bids = Pending /\ bidStats = Pending
    /\ confirmations = Pending /\ bidsWithConfirmations = Pending
    /\ NoViewRun
    /\ session \in [loggedIn : {TRUE}, pubkey : {"bidder1"}, encrypt : BOOLEAN, decrypt : {TRUE}]
    /\ dmStore = <<>>
    /\ thread = [auctionId |-> ""] @@ Pending
    /\ communications = Pending
    /\ encryptedMessages \in {Resolved(inbox) : inbox \in Inboxes}
    /\ DialogClosed /\ ClientsIdle

NextPay ==
    SelectMessage \/ CloseMessage \/ PayNow \/ DetailPay \/ ClosePaymentDialog
    \/ handleWebLNPayment

SpecPay == InitPay /\ [][NextPay]_vars

\* The relay and the views around the clients of the bidders.
InitBidding ==
    /\ listingStore = TwoListings
    /\ confStore = <<>>
    /\ auctions = Pending /\ myAuctions = Pending /\ auction = Pending
    /\ currentBids = Pending /\ bids = Pending /\ bidStats = Pending
    /\ confirmations = Pending /\ bidsWithConfirmations = Pending
    /\ NoViewRun /\ NoMessages /\ DialogClosed
    /\ myBids = Pending /\ latestBids = Pending /\ welcomed = <<>>
    /\ buyer = BuyerIdle
    /\ sellerPage = SellerIdle

\* One client, logged in or not, and the first listing with no bid, one
\* bid or two bids.
InitBidDialog ==
    /\ InitBidding
    /\ bidStore \in {SubSeq(TwoBids, 1, n) : n \in 0..2}
    /\ bidClients \in {("bidder1" :> BidderClient(loggedIn)) : loggedIn \in BOOLEAN}

NextBidDialog == BidDialogStep("bidder1")

SpecBidDialog == InitBidDialog /\ [][NextBidDialog]_vars

\* The clients of two logged-in users and no bid yet.
InitBidders ==
    /\ InitBidding
    /\ bidStore = <<>>
    /\ bidClients = ("bidder1" :> BidderClient(TRUE)) @@ ("bidder2" :> BidderClient(TRUE))

\* Both bid the amount that the dialog proposes.
NextBidders ==
    \E c \in {"bidder1", "bidder2"} :
       \/ PollCurrentBids(c) \/ OpenBidDialog(c) \/ TypeCountry(c)
       \/ SubmitBid(c) \/ PublishBidDone(c)

SpecBidders == InitBidders /\ [][NextBidders]_vars

\* The seller's management of the first listing, which has two bids, before
\* and after its end; the seller has confirmed nothing yet or has accepted
\* both bids.
InitManagement ==
    /\ listingStore = TwoListings
    /\ bidStore = TwoBids
    /\ confStore \in {<<>>,
                      <<ConfEvent(1, [pubkey |-> CurrentUser, created_at |-> 1, bid |-> 1,
                                      content |-> Confirmation("accepted")]),
                        ConfEvent(2, [pubkey |-> CurrentUser, created_at |-> 1, bid |-> 2,
                                      content |-> Confirmation("accepted")])>>}
    /\ auctions = Pending /\ myAuctions = Pending
    /\ auction = Resolved(TwoListings[1])
    /\ currentBids = Pending /\ bids = Pending /\ bidStats = Pending
    /\ confirmations = Pending /\ bidsWithConfirmations = Pending
    /\ now \in {0, MaxNow}
    /\ card = [ran |-> FALSE, now |-> 0, isActive |-> FALSE,
               timeLeft |-> [text |-> "", seconds |-> 0]]
    /\ detail = [ran |-> FALSE, now |-> 0, isActive |-> FALSE,
                 timeLeft |-> [text |-> "", seconds |-> 0]]
    /\ management = [ran |-> FALSE, now |-> 0, isAuctionEnded |-> FALSE]
    /\ dashboard = [ran |-> FALSE, now |-> 0, status |-> ""]
    /\ extendOffer = [ran |-> FALSE, now |-> 0, shown |-> FALSE]
    /\ NoMessages /\ DialogClosed /\ ClientsIdle

NextManagement ==
    QueryBidsWithConfirmations \/ ManagementMount \/ ReviewBid \/ CloseReview
    \/ handleConfirmBid \/ handleSelectWinner \/ OpenPaymentRequest \/ TypeInvoice
    \/ handleSendPaymentRequest

SpecManagement == InitManagement /\ [][NextManagement]_vars

Init == InitListings \/ InitBids \/ InitConfirmations \/ InitLifecycle \/ InitExtend
    \/ InitReserve \/ InitThreads \/ InitPayment \/ InitSend \/ InitRepublish
    \/ InitPay \/ InitBidDialog \/ InitBidders \/ InitManagement

Next ==
    \/ NextListings \/ NextBids \/ NextDashboard \/ NextConfirmations \/ NextLifecycle
    \/ NextExtend \/ NextThreads \/ NextPayment \/ NextSend
    \/ NextUnavailable \/ NextMyBids \/ NextRepublish \/ NextWelcome
    \/ NextPay \/ NextBidDialog \/ NextBidders \/ NextManagement

Spec == Init /\ [][Next]_vars

(***************************************************************************)
(* Properties.                                                             *)
(***************************************************************************)
\* What the statements below call a valid bid: content that decodes to a
\* numeric amount > 0.
DecodesToPositiveAmount(content) ==
    content.json /\ content.amountType = "number" /\ content.amount > 0

\* The places in a bid store of the valid bids tagged with a listing's event id.
ValidBidsOn(store, auctionEventId) ==
    {i \in 1..Len(store) : /\ \E k \in 1..Len(store[i].e) : store[i].e[k] = auctionEventId
                           /\ DecodesToPositiveAmount(store[i].content)}

\* The highest valid bid on a listing, its starting_bid when there is none.
HighestValidBidOr(store, listing) ==
    LET valid == ValidBidsOn(store, listing.id)
    IN IF valid = {} THEN listing.content.starting_bid
       ELSE MaxOf({store[i].content.amount : i \in valid})

\* The list page's and the detail page's price over a given bid store.
ListPriceOver(store, auctionEventId) ==
    ListGetCurrentBidOf(
        useAuctionCurrentBidsFn(
            QueryByETag(store, {auctions.data[i].id : i \in 1..Len(auctions.data)})),
        auctions.data, auctionEventId)

DetailPriceOver(store) ==
    DetailGetCurrentBidOf(Resolved(useAuctionBidsFn(QueryByETag(store, {auction.data.id}))),
                          auction.data.content)

\* C1: on the list page and on the detail page the current price of a
\* listing is at least its starting_bid, and one more bid event in the store
\* never lowers it.
C1_MonotonicPrice ==
    /\ (auctions.fetched /\ currentBids.fetched) =>
          \A i \in 1..Len(auctions.data) :
             ListGetCurrentBid(auctions.data[i].id) >= auctions.data[i].content.starting_bid
    /\ bids.fetched => DetailGetCurrentBid >= auction.data.content.starting_bid
    /\ \A in \in BidInputs :
          LET more == Append(bidStore, BidEvent(Len(bidStore) + 1, in)) IN
          /\ auctions.fetched =>
                \A i \in 1..Len(auctions.data) :
                   ListPriceOver(more, auctions.data[i].id)
                       >= ListPriceOver(bidStore, auctions.data[i].id)
          /\ DetailPriceOver(more) >= DetailPriceOver(bidStore)

\* C2: in every view that shows a current price (list page, detail page,
\* dashboard) the price is the highest valid bid tagged with the listing's
\* event id, and the starting_bid when there is no valid bid.
C2_PriceIsHighestValidBid ==
    /\ (auctions.fetched /\ currentBids.fetched) =>
          \A i \in 1..Len(auctions.data) :
             ListGetCurrentBid(auctions.data[i].id) = HighestValidBidOr(bidStore, auctions.data[i])
    /\ bids.fetched => DetailGetCurrentBid = HighestValidBidOr(bidStore, auction.data)
    /\ myAuctions.fetched =>
          \A i \in 1..Len(myAuctions.data) :
             DashboardGetCurrentBid(myAuctions.data[i])
                 = HighestValidBidOr(bidStore, myAuctions.data[i])

\* The part of C2 about the list page and the detail page.
C2_ListAndDetailPrice ==
    /\ (auctions.fetched /\ currentBids.fetched) =>
          \A i \in 1..Len(auctions.data) :
             ListGetCurrentBid(auctions.data[i].id) = HighestValidBidOr(bidStore, auctions.data[i])
    /\ bids.fetched => DetailGetCurrentBid = HighestValidBidOr(bidStore, auction.data)

\* C3: the list of useAuctionBids, and the list PublicBidHistory shows, is
\* ordered by amount non-increasing, and no valid bid of the listing in the
\* store has a greater amount than the bid of rank 1.
C3_RankedByAmount ==
    bids.fetched =>
       /\ \A i, j \in 1..Len(bids.data) :
             i < j => bids.data[i].content.amount >= bids.data[j].content.amount
       /\ \A i, j \in 1..Len(PublicBidHistory) :
             i < j => PublicBidHistory[i].bid.content.amount
                         >= PublicBidHistory[j].bid.content.amount
       /\ \A i \in ValidBidsOn(bidStore, auction.data.id) :
             /\ Len(bids.data) > 0 /\ Len(PublicBidHistory) > 0
             /\ bids.data[1].content.amount >= bidStore[i].content.amount
             /\ PublicBidHistory[1].bid.content.amount >= bidStore[i].content.amount

\* Three bids ranked 30, 20, 5 where the bid of rank 1 is neither the first
\* of the relay's response nor the latest by created_at.
C3_Witness ==
    /\ bids.fetched /\ Len(bids.data) = 3 /\ Len(PublicBidHistory) = 3
    /\ [i \in 1..3 |-> bids.data[i].content.amount] = <<30, 20, 5>>
    /\ bids.data[1].id # bidStore[1].id
    /\ bids.data[1].created_at < bids.data[2].created_at

\* C4: among bids of equal amount the ranked list has the bid with the
\* earlier created_at first.
C4_TiesByEarlierCreatedAt ==
    bids.fetched =>
       \A i, j \in 1..Len(bids.data) :
          (i < j /\ bids.data[i].content.amount = bids.data[j].content.amount)
             => bids.data[i].created_at <= bids.data[j].created_at

\* C5: useAuctionBids, useAuctionBidStats and useAuctionCurrentBids keep
\* exactly the bids whose content decodes to a numeric amount > 0: the
\* ranking holds those bids and no other, and the count and the highest
\* amount are theirs.
C5_InvalidBidsDropped ==
    LET valid == ValidBidsOn(bidStore, auction.data.id)
        amounts == {bidStore[i].content.amount : i \in valid}
    IN /\ bids.fetched =>
             /\ {bids.data[i].id : i \in 1..Len(bids.data)} = {bidStore[i].id : i \in valid}
             /\ Len(bids.data) = Cardinality(valid)
       /\ bidStats.fetched =>
             /\ bidStats.data.totalBids = Cardinality(valid)
             /\ bidStats.data.highestBid = IF valid = {} THEN 0 ELSE MaxOf(amounts)
       /\ currentBids.fetched =>
             \A a \in 1..Len(auctions.data) :
                LET id == auctions.data[a].id
                    on == ValidBidsOn(bidStore, id)
                IN /\ ListGetBidCountOf(currentBids.data, id) = Cardinality(on)
                   /\ (id \in DOMAIN currentBids.data) = (on # {})
                   /\ on # {} => currentBids.data[id].amount
                                    = MaxOf({bidStore[i].content.amount : i \in on})

\* Unparsable content, an amount of 0 and one valid bid: the three hooks
\* have run and each keeps the one valid bid.
C5_Witness ==
    /\ bids.fetched /\ bidStats.fetched /\ currentBids.fetched
    /\ Len(bidStore) = 3
    /\ \E i, j \in 1..3 : /\ ~bidStore[i].content.json
                          /\ bidStore[j].content.json /\ bidStore[j].content.amount = 0
    /\ Len(bids.data) = 1
    /\ bidStats.data.totalBids = 1
    /\ ListGetBidCountOf(currentBids.data, auction.data.id) = 1

\* What the statements below call a valid listing payload: it parses and
\* has id, title, starting_bid, start_date, duration, a non-empty images
\* array and both shipping costs.
WellFormedListing(content) ==
    /\ content.json /\ ~content.isNull
    /\ content.id # "" /\ content.title # "" /\ content.starting_bid # 0
    /\ content.start_date # 0 /\ content.duration # 0
    /\ content.imagesIsArray /\ content.imagesLength > 0
    /\ content.hasLocalCost /\ content.hasInternationalCost

\* C6: useAuctions resolves, without an error, to exactly the listing
\* events of the batch whose payload is valid.
C6_CorruptListingsDropped ==
    /\ ~auctions.error
    /\ auctions.fetched =>
          /\ {auctions.data[i].id : i \in 1..Len(auctions.data)}
                = {listingStore[i].id : i \in {j \in 1..Len(listingStore) :
                                                  WellFormedListing(listingStore[j].content)}}
          /\ Len(auctions.data)
                = Cardinality({j \in 1..Len(listingStore) :
                                  WellFormedListing(listingStore[j].content)})

\* One corrupt event in a batch of three: the two valid ones are returned.
C6_Witness ==
    /\ auctions.fetched /\ Len(listingStore) = 3
    /\ Cardinality({j \in 1..3 : ~WellFormedListing(listingStore[j].content)}) = 1
    /\ Len(auctions.data) = 2

\* An exposed listing is the latest valid version of its stable id and author.
IsLatestVersion(ev) ==
    \A j \in 1..Len(listingStore) :
       (/\ WellFormedListing(listingStore[j].content)
        /\ listingStore[j].d = ev.d /\ listingStore[j].pubkey = ev.pubkey)
          => listingStore[j].created_at <= ev.created_at

OneVersionEach(list) ==
    \A i, j \in 1..Len(list) :
       (i # j) => ~(list[i].d = list[j].d /\ list[i].pubkey = list[j].pubkey)

\* C7: of the valid listing events with the same stable id and the same
\* author, useAuctions, useMyAuctions and useAuctionByDTag expose one, the
\* one with the greatest created_at.
C7_LatestVersionOnly ==
    /\ auctions.fetched =>
          /\ OneVersionEach(auctions.data)
          /\ \A i \in 1..Len(auctions.data) : IsLatestVersion(auctions.data[i])
    /\ myAuctions.fetched =>
          /\ OneVersionEach(myAuctions.data)
          /\ \A i \in 1..Len(myAuctions.data) : IsLatestVersion(myAuctions.data[i])
    /\ auction.fetched => IsLatestVersion(auction.data)

\* The places in the confirmation store of the confirmations tagging a bid,
\* and those of them with the greatest created_at.
ConfirmationsOf(bidId) ==
    {i \in 1..Len(confStore) : \E k \in 1..Len(confStore[i].e) : confStore[i].e[k] = bidId}

LatestConfirmationsOf(bidId) ==
    {i \in ConfirmationsOf(bidId) :
        \A j \in ConfirmationsOf(bidId) : confStore[j].created_at <= confStore[i].created_at}

HasLatestStatus(item) ==
    LET all == ConfirmationsOf(item.bid.id)
        latest == LatestConfirmationsOf(item.bid.id)
    IN /\ all = {} => item.status = "pending"
       /\ (all # {} /\ \A i \in latest : confStore[i].content.json)
             => item.status \in {confStore[i].content.status : i \in latest}

\* C8: in PublicBidHistory and BidHistory a bid's status is the status of
\* the confirmation with the greatest created_at among those tagging the
\* bid's event id, and pending when no confirmation tags it.
C8_LatestConfirmationWins ==
    (bids.fetched /\ confirmations.fetched) =>
       /\ \A k \in 1..Len(PublicBidHistory) : HasLatestStatus(PublicBidHistory[k])
       /\ \A k \in 1..Len(BidHistory) : HasLatestStatus(BidHistory[k])

\* The relay returns pending at 1 before accepted at 2 for the first bid
\* and nothing for the second: accepted and pending are shown.
C8_Witness ==
    /\ bids.fetched /\ confirmations.fetched
    /\ Len(confStore) = 2
    /\ confStore[1].e[1] = TwoBids[1].id /\ confStore[2].e[1] = TwoBids[1].id
    /\ confStore[1].created_at = 1 /\ confStore[1].content = Confirmation("pending")
    /\ confStore[2].created_at = 2 /\ confStore[2].content = Confirmation("accepted")
    /\ \E k \in 1..Len(PublicBidHistory) :
          PublicBidHistory[k].bid.id = TwoBids[1].id /\ PublicBidHistory[k].status = "accepted"
    /\ \E k \in 1..Len(PublicBidHistory) :
          PublicBidHistory[k].bid.id = TwoBids[2].id /\ PublicBidHistory[k].status = "pending"
    /\ \E k \in 1..Len(BidHistory) :
          BidHistory[k].bid.id = TwoBids[1].id /\ BidHistory[k].status = "accepted"

BySeller(confs) == SelectSeq(confs, LAMBDA c : c.pubkey = auction.data.pubkey)

\* C9: a confirmation whose author is not the listing's seller changes no
\* bid's status in any view: every view shows what it would show from the
\* seller's confirmations alone.
C9_OnlySellerConfirmations ==
    /\ (bids.fetched /\ confirmations.fetched) =>
          /\ PublicBidHistory = PublicBidHistoryOf(bids.data, BySeller(confirmations.data))
          /\ BidHistory = BidHistoryOf(bids.data, BySeller(confirmations.data))
    /\ bidsWithConfirmations.fetched =>
          bidsWithConfirmations.data
             = useAuctionBidsWithConfirmationsFn(
                   QueryByETag(bidStore, {auction.data.id}),
                   BySeller(QueryByETag(confStore, {auction.data.id})))

EndTime == auction.data.content.start_date + auction.data.content.duration

\* C10: each view that derives ended/active reports active when it ran at
\* now = start_date + duration - 1 and ended when it ran at
\* now = start_date + duration.
C10_EndedAtEndTime ==
    /\ card.ran => /\ card.now = EndTime - 1 => card.isActive
                   /\ card.now = EndTime => ~card.isActive
    /\ detail.ran => /\ detail.now = EndTime - 1 => detail.isActive
                     /\ detail.now = EndTime => ~detail.isActive
    /\ management.ran => /\ management.now = EndTime - 1 => ~management.isAuctionEnded
                         /\ management.now = EndTime => management.isAuctionEnded
    /\ dashboard.ran => /\ dashboard.now = EndTime - 1 => dashboard.status = "active"
                        /\ dashboard.now = EndTime => dashboard.status = "ended"

\* The part of C10 about AuctionCard and the detail page.
C10_CardAndDetail ==
    /\ card.ran => /\ card.now = EndTime - 1 => card.isActive
                   /\ card.now = EndTime => ~card.isActive
    /\ detail.ran => /\ detail.now = EndTime - 1 => detail.isActive
                     /\ detail.now = EndTime => ~detail.isActive

\* C11: a listing whose start_date is later than now is not reported as
\* live and bidding on it is not enabled: AuctionCard and the detail page,
\* run at now < start_date, have isActive false.
C11_ScheduledNotLive ==
    /\ (card.ran /\ card.now < auction.data.content.start_date) => ~card.isActive
    /\ (detail.ran /\ detail.now < auction.data.content.start_date) => ~detail.isActive

\* The end of a listing once its highest valid bid, among the bids made up
\* to t, falls in the last extension_time seconds before start_date + duration.
AutoExtendedEnd(listing, store, t) ==
    LET data == listing.content
        end == data.start_date + data.duration
        seen == {i \in ValidBidsOn(store, listing.id) : store[i].created_at <= t}
        top == {i \in seen : \A j \in seen : store[j].content.amount <= store[i].content.amount}
        late == {i \in top : /\ store[i].created_at >= end - data.extension_time
                             /\ store[i].created_at < end}
    IN IF data.auto_extend /\ late # {}
       THEN MaxOf({end} \cup {store[i].created_at + data.extension_time : i \in late})
       ELSE end

\* C12: for a listing with auto_extend the end used for the time remaining
\* and for active/ended is max(end, bidTime + extension_time) once the
\* highest valid bid was made in the last extension_time seconds.
C12_AutoExtendedEnd ==
    card.ran =>
       LET end == AutoExtendedEnd(auction.data, bidStore, card.now)
       IN /\ card.isActive = (card.now < end)
          /\ card.isActive => card.timeLeft.seconds = end - card.now

\* The reserve is met: the listing has a reserve_price and its current
\* price (highest valid bid, starting_bid when there is none) is >= it.
ReserveIsMet(listing) ==
    /\ listing.content.hasReserve
    /\ HighestValidBidOr(bidStore, listing) >= listing.content.reserve_price

\* C13: the Reserve Met indicator of the list page, of the detail page and
\* of the dashboard is shown iff the listing has a reserve_price and the
\* current price is >= reserve_price.
C13_ReserveMet ==
    /\ (auctions.fetched /\ currentBids.fetched) =>
          \A i \in 1..Len(auctions.data) :
             ListReserveMet(auctions.data[i]) = ReserveIsMet(auctions.data[i])
    /\ bids.fetched => DetailReserveMetNow = ReserveIsMet(auction.data)
    /\ myAuctions.fetched =>
          \A i \in 1..Len(myAuctions.data) :
             DashboardReserveMet(myAuctions.data[i]) = ReserveIsMet(myAuctions.data[i])

\* The part of C13 about the list page and the detail page.
C13_ListAndDetail ==
    /\ (auctions.fetched /\ currentBids.fetched) =>
          \A i \in 1..Len(auctions.data) :
             ListReserveMet(auctions.data[i]) = ReserveIsMet(auctions.data[i])
    /\ bids.fetched => DetailReserveMetNow = ReserveIsMet(auction.data)

(***************************************************************************)
(* Message threads.                                                        *)
(***************************************************************************)
\* The stored direct messages between the user and a participant.
ExchangedWith(q) ==
    {i \in 1..Len(dmStore) :
        \/ (dmStore[i].pubkey = session.pubkey /\ dmStore[i].p = q)
        \/ (dmStore[i].pubkey = q /\ dmStore[i].p = session.pubkey)}

\* The event fails to decrypt or to parse.
FailsToRead(i) ==
    ~session.decrypt \/ ~dmStore[i].content.decrypts \/ ~dmStore[i].content.json

EventIdsOf(items) == {items[k].event.id : k \in 1..Len(items)}

\* The direct messages of all threads of useAuctionCommunications.
DirectMessagesOf(threads) ==
    {threads[t].messages[k] : <<t, k>> \in
        {x \in (1..Len(threads)) \X (1..(MaxDms + MaxConfs + 1)) :
            /\ x[2] <= Len(threads[x[1]].messages)
            /\ threads[x[1]].messages[x[2]].event.kind = 4}}

\* C15: a thread built over N encrypted events of which k fail to decrypt or
\* to parse is delivered without error and, when no auction scope is asked
\* for, holds exactly the N-k readable messages; with a scope, and in the
\* threads of useAuctionCommunications and in useEncryptedMessages, no
\* message that failed is delivered and no readable message of the auction
\* (no readable payment message) is missing because another one failed.
C15_DecryptIsolation ==
    /\ ~thread.error /\ ~communications.error /\ ~encryptedMessages.error
    /\ thread.fetched =>
          LET all == ExchangedWith("bidder1")
              failed == {i \in all : FailsToRead(i)}
          IN /\ thread.auctionId = "" =>
                   /\ Len(thread.data) = Cardinality(all) - Cardinality(failed)
                   /\ EventIdsOf(thread.data) = {DmEventId(i) : i \in all \ failed}
             /\ \A i \in failed : DmEventId(i) \notin EventIdsOf(thread.data)
             /\ \A i \in all \ failed :
                   (dmStore[i].content.hasAuctionId
                    /\ dmStore[i].content.auction_id = thread.auctionId)
                   => DmEventId(i) \in EventIdsOf(thread.data)
    /\ communications.fetched =>
          LET direct == {m.event.id : m \in DirectMessagesOf(communications.data)}
          IN \A q \in {"bidder1", "bidder2"} : \A i \in ExchangedWith(q) :
                /\ FailsToRead(i) => DmEventId(i) \notin direct
                /\ (~FailsToRead(i) /\ dmStore[i].content.hasAuctionId
                    /\ dmStore[i].content.auction_id = "u1") => DmEventId(i) \in direct
    /\ encryptedMessages.fetched =>
          \A i \in 1..Len(dmStore) : dmStore[i].p = session.pubkey =>
                /\ FailsToRead(i) => DmEventId(i) \notin EventIdsOf(encryptedMessages.data)
                /\ (~FailsToRead(i) /\ dmStore[i].content.type \in {1, 2})
                   => DmEventId(i) \in EventIdsOf(encryptedMessages.data)

\* Three events were exchanged, one of them failed, and the thread holds the other two.
C15_Witness ==
    /\ thread.fetched /\ thread.auctionId = ""
    /\ session.decrypt
    /\ Cardinality(ExchangedWith("bidder1")) = 3
    /\ Cardinality({i \in ExchangedWith("bidder1") : FailsToRead(i)}) = 1
    /\ Len(thread.data) = 2

\* C16: every direct message in a thread built for an auction id carries
\* that auction id; messages of other auctions and messages without an
\* auction_id are left out.
C16_AuctionScope ==
    /\ (thread.fetched /\ thread.auctionId # "") =>
          \A k \in 1..Len(thread.data) :
             /\ thread.data[k].decrypted.hasAuctionId
             /\ thread.data[k].decrypted.auction_id = thread.auctionId
    /\ communications.fetched =>
          \A m \in DirectMessagesOf(communications.data) :
             m.decrypted.hasAuctionId /\ m.decrypted.auction_id = "u1"

\* C16, the part about other auctions: no delivered message names another auction.
C16_OtherAuctionsExcluded ==
    /\ (thread.fetched /\ thread.auctionId # "") =>
          \A k \in 1..Len(thread.data) :
             thread.data[k].decrypted.hasAuctionId
             => thread.data[k].decrypted.auction_id = thread.auctionId
    /\ communications.fetched =>
          \A m \in DirectMessagesOf(communications.data) :
             m.decrypted.hasAuctionId => m.decrypted.auction_id = "u1"

(***************************************************************************)
(* The payment request dialog and the send functions.                      *)
(***************************************************************************)
GenerateErrorTitles ==
    {"Invalid amount", "Description required", "Failed to generate invoice",
     "Invoice generation failed"}

SendFailed == sendResult \in {"encryptFailed", "publishFailed"}

\* C18: the step is never sent for a payment request whose encryption or
\* publication failed.
C18_NeverSentUnpublished == step = "sent" => ~SendFailed

\* C18, the rollback: the step at which a send fails ends at invoice with
\* the generated invoice kept.
C18_RollbackOnFailure ==
    [][(SendFailed' /\ ~SendFailed) =>
          /\ step' = "invoice"
          /\ generatedInvoice' = generatedInvoice /\ generatedInvoice # ""
      ]_vars

RefusalTitles == {"NIP-04 encryption not available", "Encryption not available"}

FailureTitles ==
    {"Encryption failed", "Failed to send message", "Failed to send payment request",
     "Failed to generate invoice", "Invoice generation failed"}

\* C19: with a signer that cannot encrypt (or nobody logged in), a send of
\* the dialog, sendAuctionMessage and sendEncryptedMessage start no
\* encryption and no publication and leave the dialog's step alone, nothing
\* is ever published, and the toast they show is one of the two titles for
\* the missing capability, not one of the titles for a failure.
C19_RefusedWithoutEncrypt ==
    /\ [](~(session.loggedIn /\ session.encrypt) => (dmStore = <<>> /\ outbox = <<>>))
    /\ [][(~(session.loggedIn /\ session.encrypt)
           /\ (SendClick \/ SendAuctionMessage \/ SendEncryptedMessage)) =>
             /\ dmStore' = dmStore /\ outbox' = outbox
             /\ step' = step
             /\ toast' \in RefusalTitles /\ toast' \notin FailureTitles
         ]_vars

\* The Send button of the dialog was clicked with a signer that cannot encrypt.
C19_Witness ==
    /\ session.loggedIn /\ ~session.encrypt
    /\ step = "invoice" /\ generatedInvoice # ""
    /\ toast = "NIP-04 encryption not available"

\* Sends of the dialog that have not settled.
DialogSends == {k \in 1..Len(outbox) : outbox[k].via = "dialog"}

\* C20: no generate, send or back action of the dialog starts while one of
\* its invoice generations or sends is pending.
C20_SingleFlight ==
    [][(\/ Len(invoiceCalls') > Len(invoiceCalls)
        \/ (step # "sending" /\ step' = "sending")
        \/ (step = "invoice" /\ step' = "form"))
       => (invoiceCalls = <<>> /\ DialogSends = {})
      ]_vars

\* C20, the count: at most one invoice generation and at most one payment
\* request of the dialog are under way.
C20_OneInFlight == Len(invoiceCalls) <= 1 /\ Cardinality(DialogSends) <= 1

\* C20, the order: the step changes only along form -> invoice -> sending ->
\* sent, back from invoice to form, from sending to invoice and from sent to form.
C20_StepOrder ==
    [][step' # step =>
          <<step, step'>> \in {<<"form", "invoice">>, <<"invoice", "sending">>,
                               <<"sending", "sent">>, <<"sending", "invoice">>,
                               <<"invoice", "form">>, <<"sent", "form">>}
      ]_vars

(***************************************************************************)
(* Failures of the event store.                                            *)
(***************************************************************************)
\* C21: when the bid query for a listing has failed and no earlier answer
\* is held, neither the list page nor the detail page shows the listing
\* with its starting bid as current price (and zero bids) as if it had no bids.
C21_FailureNotShownAsNoBids ==
    /\ (auctions.fetched /\ currentBids.error /\ ~currentBids.fetched) =>
          \A i \in 1..Len(auctions.data) :
             ~(/\ ListGetBidCountOf(currentBids.data, auctions.data[i].id) = 0
               /\ ListGetCurrentBid(auctions.data[i].id) = auctions.data[i].content.starting_bid)
    /\ (auction.fetched /\ bids.error /\ ~bids.fetched) =>
          DetailGetCurrentBid # auction.data.content.starting_bid

(***************************************************************************)
(* The seller's management view.                                           *)
(***************************************************************************)
\* C26: useAuctionBidsWithConfirmations gives each bid the status of the
\* confirmation with the greatest created_at among those tagging the bid,
\* whatever the order in which the relay returns the confirmations.
C26_ManagementLatestConfirmation ==
    bidsWithConfirmations.fetched =>
       \A k \in 1..Len(bidsWithConfirmations.data) :
          HasLatestStatus(bidsWithConfirmations.data[k])

(***************************************************************************)
(* The bidder's own views.                                                 *)
(***************************************************************************)
\* C25: in MyBidHistory and in the My Bids tab of the dashboard the status
\* shown for a bid is the status of the seller's latest confirmation of that
\* bid, and pending only when there is none.
C25_OwnBidStatus ==
    myBids.fetched =>
       /\ \A k \in 1..Len(MyBidHistoryOf(myBids.data)) :
             HasLatestStatus(MyBidHistoryOf(myBids.data)[k])
       /\ \A k \in 1..Len(DashboardMyBidsOf(myBids.data)) :
             HasLatestStatus(DashboardMyBidsOf(myBids.data)[k])

(***************************************************************************)
(* Bids across the versions of a listing.                                  *)
(***************************************************************************)
\* The ids of the stored versions of the listing that the event belongs to.
VersionIdsOf(auctionEvent) ==
    {listingStore[i].id : i \in {j \in 1..Len(listingStore) :
        /\ listingStore[j].d = auctionEvent.d
        /\ listingStore[j].pubkey = auctionEvent.pubkey}}

\* The valid bids stored for any version of the listing.
BidsOnAnyVersion(auctionEvent) ==
    {bidStore[i] : i \in {j \in 1..Len(bidStore) :
        /\ IsValidBid(bidStore[j])
        /\ \E k \in 1..Len(bidStore[j].e) : bidStore[j].e[k] \in VersionIdsOf(auctionEvent)}}

\* C29: the bids and the current price that the detail page reconciles for
\* the listing event it has loaded include every valid bid placed against
\* any version of that listing, earlier versions included.
C29_BidsSurviveRepublish ==
    [][QueryAuctionBids =>
          \A b \in BidsOnAnyVersion(auction.data) :
             /\ \E k \in 1..Len(bids'.data) : bids'.data[k].id = b.id
             /\ DetailGetCurrentBidOf(bids', auction.data.content) >= b.content.amount]_vars

(***************************************************************************)
(* Welcome messages.                                                       *)
(***************************************************************************)
TimesWelcomed(bidId) == Cardinality({k \in 1..Len(welcomed) : welcomed[k] = bidId})

\* C27: over any number of refetches and effect runs a bid is welcomed at
\* most once.
C27_WelcomedAtMostOnce ==
    \A i \in 1..Len(bidStore) : TimesWelcomed(bidStore[i].id) <= 1

(***************************************************************************)
(* Payment of a payment request.                                           *)
(***************************************************************************)
\* The payment request whose lightning invoice is shown in the PaymentDialog.
RequestBeingPaid ==
    CHOOSE i \in 1..Len(encryptedMessages.data) :
       \E k \in 1..Len(encryptedMessages.data[i].decrypted.payment_options) :
          encryptedMessages.data[i].decrypted.payment_options[k].link = buyer.selectedInvoice

\* C28: whenever the WebLN payment of a payment request's invoice succeeds,
\* from Pay Now in the list or from the message detail dialog, an order
\* update (type 2, paid) with the request's id is sent to the request's author.
C28_PaidThenOrderUpdate ==
    [][(handleWebLNPayment /\ buyer'.paymentStatus = "success") =>
          LET request == encryptedMessages.data[RequestBeingPaid] IN
          \E k \in 1..Len(buyer'.sent) :
             /\ k > Len(buyer.sent)
             /\ buyer'.sent[k].p = request.event.pubkey
             /\ buyer'.sent[k].message.id = request.decrypted.id
             /\ buyer'.sent[k].message.type = 2
             /\ buyer'.sent[k].message.paid]_vars

(***************************************************************************)
(* Placing a bid.                                                          *)
(***************************************************************************)
\* What a submission is to be rejected for.
MustReject(client) ==
    \/ ~client.loggedIn
    \/ client.amount < 1
    \/ client.amount <= CurrentBidProp(client)

RejectionReasons ==
    {"Authentication required", "Bid amount must be at least 1 sat",
     "Please enter your country code", "Invalid bid amount"}

\* C22: BidDialog hands no bid to the publisher for a user who is not
\* logged in, for an amount below 1 or for an amount that is not strictly
\* greater than the dialog's current bid; such a submission shows a reason,
\* leaves the dialog open and publishes nothing.
C22_RejectedBeforePublishing ==
    [][\A c \in DOMAIN bidClients :
          /\ (bidClients'[c].isPending /\ ~bidClients[c].isPending) => ~MustReject(bidClients[c])
          /\ (SubmitBid(c) /\ MustReject(bidClients[c])) =>
                /\ bidClients'[c].open /\ ~bidClients'[c].isPending
                /\ bidClients'[c].shown # {} /\ bidClients'[c].shown \subseteq RejectionReasons
                /\ bidStore' = bidStore
          /\ bidStore' # bidStore => bidClients[c].isPending \/ bidClients'[c] = bidClients[c]]_vars

\* A bid equal to the current bid was submitted and refused.
C22_Witness ==
    /\ "bidder1" \in DOMAIN bidClients
    /\ bidClients["bidder1"].open /\ ~bidClients["bidder1"].isPending
    /\ bidClients["bidder1"].amount = 20 /\ CurrentBidProp(bidClients["bidder1"]) = 20
    /\ bidClients["bidder1"].shown = {"Invalid bid amount"}
    /\ Len(bidStore) = 1

\* C30: with several clients bidding on the same listing, every published
\* bid is strictly greater than every valid bid published before it.
C30_PublishedBidsIncrease ==
    \A i, j \in 1..Len(bidStore) :
       (i < j /\ IsValidBid(bidStore[i]) /\ IsValidBid(bidStore[j])
          /\ bidStore[i].e = bidStore[j].e)
       => bidStore[j].content.amount > bidStore[i].content.amount

(***************************************************************************)
(* The seller's decisions.                                                 *)
(***************************************************************************)
\* The bids with a winner confirmation published by the seller's client.
WinnersByUser ==
    {confStore[i].e[1] : i \in {j \in 1..Len(confStore) :
        /\ confStore[j].pubkey = CurrentUser
        /\ confStore[j].content.json
        /\ confStore[j].content.status = "winner"}}

\* C23: after any sequence of accept, reject and select winner in
\* AuctionManagement at most one bid of the auction has a winner
\* confirmation published by this client.
C23_AtMostOneWinner == Cardinality(WinnersByUser) <= 1

\* C24: every payment request of the seller is a kind 4 event whose content
\* is a ciphertext of a payload with type 1, paid = false, shipped = false
\* and a non-empty list of payment options.
C24_PaymentRequestEncrypted ==
    \A k \in 1..Len(sellerPage.published) :
       sellerPage.published[k].kind = 4 =>
          LET content == sellerPage.published[k].content IN
          /\ content.encrypted
          /\ content.payload.type = 1
          /\ content.payload.hasPaid /\ content.payload.hasShipped
          /\ Len(content.payload.payment_options) > 0

====
